---- MODULE Spec2Model ----
(***************************************************************************)
(* EV data management: the field normalizers and the dataset cleaners of   *)
(* data_preprocessor.py (class EVDataPreprocessor).                        *)
(*                                                                         *)
(* Python values are tagged records; a str is a sequence of characters so  *)
(* that strip, re.sub, lower, replace, float() and str() are computed on   *)
(* the characters, as the interpreter computes them.                       *)
(***************************************************************************)
EXTENDS Integers, Sequences, FiniteSets, TLC

VARIABLES
    fn,            \* the field normalizer that was called ("" before the call)
    arg,           \* its first argument
    arg2,          \* its second argument (lng of validate_coordinates)
    as_type,       \* the data_type argument of clean_numeric
    ret,           \* what the call produced: a value, a pair, or a raised exception
    data_type,     \* the cleaner that runs: ev_population, charging_stations, ev_sales
    raw_data,      \* the list of rows handed to the cleaner
    i,             \* position of the cleaner's for-loop in raw_data (rows done)
    cleaned_data,  \* the cleaner's cleaned_data list
    pc,            \* "input", "loop", "returned", "raised", "done"
    pass,          \* 1: cleaning raw rows; 2: cleaning the records of pass 1 again
    first_raw,     \* the raw rows of pass 1, kept for reference
    file_stem,     \* the stem of the file at hand (csv_file.stem)
    table_name,    \* the table setup_postgresql loads the file into
    collection_name, \* the collection setup_mongodb loads the file into
    csv_files,     \* setup_postgresql: the files of data/sql in the order of the glob
    file_idx,      \* files the for-loop over the files has finished
    committed,     \* the tables of the database as last committed
    working,       \* the tables as the open transaction of the connection sees them
    columns,       \* the column types inferred for the file being loaded
    batch_data,    \* rows read and not yet passed to executemany
    count,         \* data rows of the file read so far
    outcomes,      \* per finished file of this run: "ok" (committed) or "failed" (rolled back)
    run,           \* 1: first run of the setup; 2: the setup is run again
    db0,           \* the tables before the first run
    db1,           \* the tables after the first run
    executed,      \* the batches passed to cursor.executemany for the file being loaded
    processed_dir, \* process_all_files: the files of data/processed by stem
    sql_dir,       \* the files of data/sql by stem
    nosql_dir,     \* the files of data/nosql by stem
    total_processed, \* records retained so far in the run
    total_original, \* raw records read so far in the run
    request,       \* execute_query: database_type and what each backend will do
    results,       \* execute_query: the dict it returns
    pending,       \* run_all_tests: the discovered tests not yet run
    runner,        \* run_all_tests: the counters and failed_queries of self.results
    op,            \* the load or query operation whose resources are followed
    at,            \* the statement of op that runs next
    handles,       \* open connections, cursors, clients and files, counted by kind
    attempt        \* wait_for_database: the attempt of range(max_attempts)

vars == <<fn, arg, arg2, as_type, ret, data_type, raw_data, i, cleaned_data, pc, pass, first_raw,
          file_stem, table_name, collection_name,
          csv_files, file_idx, committed, working, columns, batch_data, count,
          outcomes, run, db0, db1, executed,
          processed_dir, sql_dir, nosql_dir, total_processed, total_original,
          request, results, pending, runner, op, at, handles, attempt>>

-----------------------------------------------------------------------------
(* Bounds of the model.                                                    *)

\* longest run of padding characters put before and after a core string
MaxPad == 1
\* most rows in one raw file
MaxRows == 2
\* decimal places a float carries in the model (values are kept as integers
\* scaled by 10^FracDigits)
FracDigits == 3

-----------------------------------------------------------------------------
(* Characters.                                                             *)

SP == " "
TAB == "\t"
NUL == "NUL"

UpperChars == <<"A","B","C","D","E","F","G","H","I","J","K","L","M",
                "N","O","P","Q","R","S","T","U","V","W","X","Y","Z">>
LowerChars == <<"a","b","c","d","e","f","g","h","i","j","k","l","m",
                "n","o","p","q","r","s","t","u","v","w","x","y","z">>
DigitChars == <<"0","1","2","3","4","5","6","7","8","9">>

\* str.isspace(): the characters str.strip() removes at both ends
IsSpace(c) == c \in {SP, TAB}
\* the class [\x00-\x1f\x7f-\x9f] of the re.sub in clean_string
IsControl(c) == c \in {NUL, TAB}
IsUpper(c) == \E k \in 1..26 : UpperChars[k] = c
IsLower(c) == \E k \in 1..26 : LowerChars[k] = c
IsDigit(c) == \E k \in 1..10 : DigitChars[k] = c
DigitVal(c) == (CHOOSE k \in 1..10 : DigitChars[k] = c) - 1

ToLower(c) == IF IsUpper(c) THEN LowerChars[CHOOSE k \in 1..26 : UpperChars[k] = c] ELSE c
ToUpper(c) == IF IsLower(c) THEN UpperChars[CHOOSE k \in 1..26 : LowerChars[k] = c] ELSE c

-----------------------------------------------------------------------------
(* str methods.                                                            *)

RECURSIVE LStrip(_)
LStrip(s) == IF s # <<>> /\ IsSpace(Head(s)) THEN LStrip(Tail(s)) ELSE s

RECURSIVE RStrip(_)
RStrip(s) == IF s # <<>> /\ IsSpace(s[Len(s)]) THEN RStrip(SubSeq(s, 1, Len(s) - 1)) ELSE s

\* str.strip()
Strip(s) == RStrip(LStrip(s))

\* str.lower(), str.upper()
Lower(s) == [k \in 1..Len(s) |-> ToLower(s[k])]
Upper(s) == [k \in 1..Len(s) |-> ToUpper(s[k])]

\* str.title(): a letter is upper-cased after an uncased character, lower-cased
\* after a cased one
Title(s) ==
    [k \in 1..Len(s) |->
        IF k > 1 /\ (IsUpper(s[k - 1]) \/ IsLower(s[k - 1]))
        THEN ToLower(s[k]) ELSE ToUpper(s[k])]

\* re.sub(r'[\x00-\x1f\x7f-\x9f]', '', s)
NotControl(c) == ~IsControl(c)
RemoveControl(s) == SelectSeq(s, NotControl)

\* s.replace('$', '').replace(',', '').replace('%', '')
NotSymbol(c) == c \notin {"$", ",", "%"}
RemoveSymbols(s) == SelectSeq(s, NotSymbol)

-----------------------------------------------------------------------------
(* Python values.                                                          *)

None == [t |-> "none", v |-> 0]
PyStr(s) == [t |-> "str", v |-> s]
PyInt(n) == [t |-> "int", v |-> n]
PyBool(b) == [t |-> "bool", v |-> b]
\* a finite float x is kept as the integer x * 10^FracDigits
PyFloat(m) == [t |-> "float", k |-> "fin", v |-> m]
PosInf == [t |-> "float", k |-> "inf", v |-> 1]
NegInf == [t |-> "float", k |-> "inf", v |-> -1]
NaN == [t |-> "float", k |-> "nan", v |-> 0]
\* an exception leaving a call
Raise(exc) == [t |-> "raise", v |-> exc]

IsRaise(x) == x.t = "raise"

RECURSIVE Pow10(_)
Pow10(n) == IF n <= 0 THEN 1 ELSE 10 * Pow10(n - 1)
Scale == Pow10(FracDigits)

\* bool(x), the truth value `not x`, `x and ...`, `x or ...` test
Truthy(x) ==
    CASE x.t = "none" -> FALSE
      [] x.t = "str" -> x.v # <<>>
      [] x.t = "int" -> x.v # 0
      [] x.t = "bool" -> x.v
      [] x.t = "float" -> x.k # "fin" \/ x.v # 0

\* a or b
Or(a, b) == IF Truthy(a) THEN a ELSE b

-----------------------------------------------------------------------------
(* float(), int() and str() of the interpreter.                            *)

AllDigits(s) == \A k \in 1..Len(s) : IsDigit(s[k])

RECURSIVE DigitsVal(_)
DigitsVal(s) == IF s = <<>> THEN 0
                ELSE 10 * DigitsVal(SubSeq(s, 1, Len(s) - 1)) + DigitVal(s[Len(s)])

\* position of the first character of s that is in set cs, 0 when there is none
FirstIn(s, cs) == IF \E k \in 1..Len(s) : s[k] \in cs
                  THEN CHOOSE k \in 1..Len(s) : s[k] \in cs /\ \A j \in 1..(k - 1) : s[j] \notin cs
                  ELSE 0

\* float(s) of an unsigned decimal literal  digits [. digits] [e [sign] digits]
ParseDecimal(s, sign) ==
    LET e == FirstIn(s, {"e", "E"})
        mant == IF e = 0 THEN s ELSE SubSeq(s, 1, e - 1)
        ex == IF e = 0 THEN <<>> ELSE SubSeq(s, e + 1, Len(s))
        exsign == IF ex # <<>> /\ Head(ex) = "-" THEN -1 ELSE 1
        exdig == IF ex # <<>> /\ Head(ex) \in {"+", "-"} THEN Tail(ex) ELSE ex
        dot == FirstIn(mant, {"."})
        ip == IF dot = 0 THEN mant ELSE SubSeq(mant, 1, dot - 1)
        fp == IF dot = 0 THEN <<>> ELSE SubSeq(mant, dot + 1, Len(mant))
        wellFormed == /\ AllDigits(ip) /\ AllDigits(fp) /\ Len(ip) + Len(fp) >= 1
                      /\ (e # 0 => exdig # <<>> /\ AllDigits(exdig))
    IN  IF ~wellFormed THEN Raise("ValueError")
        ELSE LET M == DigitsVal(ip \o fp)
                 E == exsign * DigitsVal(exdig)
                 shift == E - Len(fp) + FracDigits
             IN  IF M = 0 THEN PyFloat(0)
                 \* beyond sys.float_info.max (about 1.8e308) float() gives inf
                 ELSE IF Len(ip) + E > 309
                      THEN (IF sign = 1 THEN PosInf ELSE NegInf)
                 ELSE IF shift >= 0 THEN PyFloat(sign * M * Pow10(shift))
                 ELSE PyFloat(sign * (M \div Pow10(-shift)))

\* float(s) for a str s: surrounding whitespace is ignored, then an optional
\* sign and inf, infinity, nan (any letter case) or a decimal literal
ParseFloat(s) ==
    LET t == Strip(s)
        signed == t # <<>> /\ Head(t) \in {"+", "-"}
        sign == IF t # <<>> /\ Head(t) = "-" THEN -1 ELSE 1
        body == IF signed THEN Tail(t) ELSE t
        word == Lower(body)
    IN  IF word \in {<<"i","n","f">>, <<"i","n","f","i","n","i","t","y">>}
        THEN (IF sign = 1 THEN PosInf ELSE NegInf)
        ELSE IF word = <<"n","a","n">> THEN NaN
        ELSE ParseDecimal(body, sign)

\* float(x)
ToFloat(x) ==
    CASE x.t = "str" -> ParseFloat(x.v)
      [] x.t = "int" -> PyFloat(x.v * Scale)
      [] x.t = "bool" -> PyFloat(IF x.v THEN Scale ELSE 0)
      [] x.t = "float" -> x
      [] x.t = "none" -> Raise("TypeError")

\* integer part of m / Scale, rounded down
Floor(m) == m \div Scale

\* integer part of m / Scale, rounded towards zero
Trunc(m) == IF m >= 0 THEN m \div Scale ELSE -((-m) \div Scale)

\* int(x) for a float x
FloatToInt(x) ==
    CASE x.k = "fin" -> PyInt(Trunc(x.v))
      [] x.k = "inf" -> Raise("OverflowError")
      [] x.k = "nan" -> Raise("ValueError")

RECURSIVE NatDigits(_)
NatDigits(n) == IF n < 10 THEN <<DigitChars[n + 1]>>
                ELSE NatDigits(n \div 10) \o <<DigitChars[(n % 10) + 1]>>

\* the digits of fraction f (an integer below 10^w) on w places
RECURSIVE FracPlaces(_, _)
FracPlaces(f, w) == IF w = 0 THEN <<>>
                    ELSE FracPlaces(f \div 10, w - 1) \o <<DigitChars[(f % 10) + 1]>>

RECURSIVE DropZeros(_)
DropZeros(s) == IF Len(s) > 1 /\ s[Len(s)] = "0" THEN DropZeros(SubSeq(s, 1, Len(s) - 1)) ELSE s

\* str(x)
ToStr(x) ==
    CASE x.t = "str" -> x.v
      [] x.t = "none" -> <<"N","o","n","e">>
      [] x.t = "bool" -> IF x.v THEN <<"T","r","u","e">> ELSE <<"F","a","l","s","e">>
      [] x.t = "int" -> IF x.v < 0 THEN <<"-">> \o NatDigits(-x.v) ELSE NatDigits(x.v)
      [] x.t = "float" ->
            CASE x.k = "nan" -> <<"n","a","n">>
              [] x.k = "inf" -> IF x.v > 0 THEN <<"i","n","f">> ELSE <<"-","i","n","f">>
              [] x.k = "fin" ->
                    LET a == IF x.v < 0 THEN -x.v ELSE x.v
                        frac == IF FracDigits = 0 THEN <<"0">>
                                ELSE DropZeros(FracPlaces(a % Scale, FracDigits))
                    IN  (IF x.v < 0 THEN <<"-">> ELSE <<>>)
                        \o NatDigits(a \div Scale) \o <<".">> \o frac

\* Positive with the comparison dropped: every number passes
PositiveDropped(x) == x.t \in {"int", "float"}

\* x > 0 and lo <= x <= hi for a number x (comparisons with nan are false)
Positive(x) ==
    CASE x.t = "int" -> x.v > 0
      [] x.t = "float" -> (x.k = "fin" /\ x.v > 0) \/ (x.k = "inf" /\ x.v > 0)

Between(lo, x, hi) ==
    CASE x.t = "int" -> lo <= x.v /\ x.v <= hi
      [] x.t = "float" -> x.k = "fin" /\ lo * Scale <= x.v /\ x.v <= hi * Scale

-----------------------------------------------------------------------------
(* Field normalizers (EVDataPreprocessor).  Each returns a value, None, or *)
(* Raise(exc) when exception exc leaves the call.                          *)

\* the literal list of clean_string: ['', 'NULL', 'null', 'None', 'N/A', 'n/a']
NullStrings ==
    { <<>>, <<"N","U","L","L">>, <<"n","u","l","l">>, <<"N","o","n","e">>,
      <<"N","/","A">>, <<"n","/","a">> }

clean_string(value) ==
    IF ~Truthy(value) THEN None
    ELSE IF value.t # "str" THEN Raise("AttributeError")
    ELSE IF Strip(value.v) \in NullStrings THEN None
    ELSE LET cleaned == RemoveControl(Strip(value.v))
         IN  IF cleaned # <<>> THEN PyStr(cleaned) ELSE None

\* the literal list of clean_numeric: ['null', 'none', 'n/a', '', 'nan']
NullNumerics ==
    { <<"n","u","l","l">>, <<"n","o","n","e">>, <<"n","/","a">>, <<>>, <<"n","a","n">> }

clean_numeric(value, kind) ==
    IF ~Truthy(value) THEN None
    ELSE LET cleaned == Strip(RemoveSymbols(ToStr(value)))
         IN  IF Lower(cleaned) \in NullNumerics THEN None
             ELSE LET f == ParseFloat(cleaned)
                  IN  IF IsRaise(f) THEN None
                      ELSE IF kind = "int"
                           THEN LET n == FloatToInt(f)
                                IN  IF IsRaise(n) /\ n.v \in {"ValueError", "TypeError"}
                                    THEN None ELSE n
                           ELSE f

MinYear == 1990
MaxYear == 2030

clean_year(value) ==
    LET year == clean_numeric(value, "int")
    IN  IF IsRaise(year) THEN year
        ELSE IF Truthy(year) /\ Between(MinYear, year, MaxYear) THEN year
        ELSE None

\* standardization_map, as <<key, value>> pairs
standardization_map ==
    {
      <<<<"b","m","w">>,
        <<"B","M","W">>>>,
      <<<<"t","e","s","l","a">>,
        <<"T","e","s","l","a">>>>,
      <<<<"a","u","d","i">>,
        <<"A","u","d","i">>>>,
      <<<<"m","e","r","c","e","d","e","s">>,
        <<"M","e","r","c","e","d","e","s","-","B","e","n","z">>>>,
      <<<<"m","e","r","c","e","d","e","s","-","b","e","n","z">>,
        <<"M","e","r","c","e","d","e","s","-","B","e","n","z">>>>,
      <<<<"v","o","l","k","s","w","a","g","e","n">>,
        <<"V","o","l","k","s","w","a","g","e","n">>>>,
      <<<<"v","w">>,
        <<"V","o","l","k","s","w","a","g","e","n">>>>,
      <<<<"n","i","s","s","a","n">>,
        <<"N","i","s","s","a","n">>>>,
      <<<<"h","y","u","n","d","a","i">>,
        <<"H","y","u","n","d","a","i">>>>,
      <<<<"k","i","a">>,
        <<"K","i","a">>>>,
      <<<<"f","o","r","d">>,
        <<"F","o","r","d">>>>,
      <<<<"c","h","e","v","r","o","l","e","t">>,
        <<"C","h","e","v","r","o","l","e","t">>>>,
      <<<<"c","h","e","v","y">>,
        <<"C","h","e","v","r","o","l","e","t">>>>,
      <<<<"b","y","d">>,
        <<"B","Y","D">>>>,
      <<<<"n","i","o">>,
        <<"N","I","O">>>>,
      <<<<"l","u","c","i","d">>,
        <<"L","u","c","i","d",SP,"M","o","t","o","r","s">>>>,
      <<<<"r","i","v","i","a","n">>,
        <<"R","i","v","i","a","n">>>>,
      <<<<"p","o","l","e","s","t","a","r">>,
        <<"P","o","l","e","s","t","a","r">>>>
    }

\* the lookup made on the cleaned name as it is, without lower-casing it
StandardizeMakeCaseSensitive(make) ==
    IF ~Truthy(make) THEN None
    ELSE LET m == clean_string(make)
         IN  IF IsRaise(m) THEN m
             ELSE IF ~Truthy(m) THEN None
             ELSE IF \E e \in standardization_map : e[1] = m.v
                  THEN PyStr((CHOOSE e \in standardization_map : e[1] = m.v)[2])
                  ELSE PyStr(Title(m.v))

standardize_make(make) ==
    IF ~Truthy(make) THEN None
    ELSE LET m == clean_string(make)
         IN  IF IsRaise(m) THEN m
             ELSE IF ~Truthy(m) THEN None
             ELSE LET make_lower == Lower(m.v)
                  IN  IF \E e \in standardization_map : e[1] = make_lower
                      THEN PyStr((CHOOSE e \in standardization_map : e[1] = make_lower)[2])
                      ELSE PyStr(Title(m.v))

MaxLat == 90
MaxLng == 180

\* float(x) if x else None
FloatOrNone(x) == IF Truthy(x) THEN ToFloat(x) ELSE None

\* validate_coordinates with the bounds excluded: -90 < lat_f < 90, -180 < lng_f < 180
ValidateCoordinatesStrict(lat, lng) ==
    LET lat_f == FloatOrNone(lat)
        lng_f == FloatOrNone(lng)
    IN  IF IsRaise(lat_f) \/ IsRaise(lng_f) THEN <<None, None>>
        ELSE IF /\ lat_f # None /\ lng_f # None
                /\ Between(-MaxLat, lat_f, MaxLat) /\ Between(-MaxLng, lng_f, MaxLng)
                /\ lat_f.v \notin {-MaxLat * Scale, MaxLat * Scale}
                /\ lng_f.v \notin {-MaxLng * Scale, MaxLng * Scale}
             THEN <<lat_f, lng_f>>
        ELSE <<None, None>>

\* returns the pair <<lat_f, lng_f>>; ValueError and TypeError are caught
validate_coordinates(lat, lng) ==
    LET lat_f == FloatOrNone(lat)
        lng_f == FloatOrNone(lng)
    IN  IF IsRaise(lat_f) \/ IsRaise(lng_f) THEN <<None, None>>
        ELSE IF /\ lat_f # None /\ lng_f # None
                /\ Between(-MaxLat, lat_f, MaxLat) /\ Between(-MaxLng, lng_f, MaxLng)
             THEN <<lat_f, lng_f>>
        ELSE <<None, None>>

-----------------------------------------------------------------------------
(* Inputs of the field normalizers.                                        *)

PadChars == {SP, TAB, NUL}

RECURSIVE SeqsUpTo(_, _)
SeqsUpTo(S, n) == IF n = 0 THEN {<<>>}
                  ELSE LET shorter == SeqsUpTo(S, n - 1)
                       IN  shorter \cup {<<c>> \o q : c \in S, q \in shorter}

Pads == SeqsUpTo(PadChars, MaxPad)

\* raw cell texts: sentinels in several letter cases, numeric spellings, names
Cores ==
    {
      <<>>, <<"N","U","L","L">>, <<"n","u","l","l">>, <<"N","o","n","e">>,
      <<"N","/","A">>, <<"n","/","a">>, <<"N","O","N","E">>, <<"n","o","n","e">>,
      <<"N","u","l","l">>, <<"n","/","A">>, <<"n","a","n">>, <<"N","a","N">>,
      <<"i","n","f">>, <<"-","i","n","f">>, <<"I","n","f","i","n","i","t","y">>,
      <<"1","e","9","9","9">>, <<"-","1","e","9","9","9">>, <<"1","9","8","5">>,
      <<"1","9","8","9">>, <<"1","9","9","0">>, <<"2","0","1","5">>,
      <<"2","0","2","1">>, <<"2","0","3","0">>, <<"2","0","3","1">>,
      <<"2","0","3","0",".","9">>, <<"1","9","8","9",".","9">>, <<"0">>, <<"-","5">>,
      <<"1","2",".","9">>, <<"-","1","2",".","9">>,
      <<"$","1",",","2","3","4",".","7">>, <<"5","0","%">>, <<"1","e","3">>,
      <<"2",".","0","1","5","e","3">>, <<"1",".","5","e","-","1">>, <<".","5">>,
      <<"5",".">>, <<"1",".","2",".","3">>, <<"e","5">>, <<"-","-","5">>, <<"$">>,
      <<"a","b","c">>, <<"t","e","s","l","a">>, <<"T","E","S","L","A">>, <<"v","w">>,
      <<"C","h","e","v","y">>, <<"m","e","r","c","e","d","e","s">>,
      <<"l","u","c","i","d">>, <<"O","b","s","c","u","r","e",SP,"C","o">>,
      <<"o","b","s","c","u","r","e",SP,"c","o">>, <<"M","o","d","e","l",SP,"3">>,
      <<"W","A">>, <<"o","'","n","e","i","l">>, <<SP>>, <<"a",SP,"b">>, <<"a",NUL,"b">>
    }

RawStrings == {pre \o core \o post : pre \in Pads, core \in Cores, post \in Pads}

\* raw latitude / longitude cells; None is a column the row does not have
CoordCells ==
    {None} \cup {PyStr(c) : c \in
    {
      <<>>, <<"0">>, <<"0",".","0">>, <<"-","0",".","0">>, <<"4","5",".","0">>,
      <<"-","4","5",".","5">>, <<"9","0">>, <<"-","9","0">>,
      <<"9","0",".","0","0","1">>, <<"9","1">>, <<"-","9","1">>,
      <<"2","0","0",".","0">>, <<"1","8","0">>, <<"-","1","8","0">>,
      <<"1","8","0",".","5">>, <<"-","1","8","1">>, <<"a","b","c">>, <<"n","a","n">>,
      <<"i","n","f">>, <<SP,"4","5",SP>>, <<"4",SP,"5">>, <<"1","e","2">>,
      <<"1","e","9","9","9">>
    }}

normVars == <<fn, arg, arg2, as_type, ret>>
cleanerVars == <<data_type, raw_data, i, cleaned_data, pc, pass, first_raw>>

CleanerIdle ==
    /\ data_type = "" /\ raw_data = <<>> /\ i = 0 /\ cleaned_data = <<>>
    /\ pc = "idle" /\ pass = 0 /\ first_raw = <<>>

namesVars == <<file_stem, table_name, collection_name>>
NamesIdle == file_stem = <<>> /\ table_name = None /\ collection_name = None

loadVars == <<csv_files, file_idx, committed, working, columns, batch_data, count,
              outcomes, run, db0, db1, executed>>
LoadIdle ==
    /\ csv_files = <<>> /\ file_idx = 0 /\ committed = <<>> /\ working = <<>>
    /\ columns = <<>> /\ batch_data = <<>> /\ count = 0 /\ outcomes = <<>>
    /\ run = 0 /\ db0 = <<>> /\ db1 = <<>> /\ executed = <<>>

pipeVars == <<processed_dir, sql_dir, nosql_dir, total_processed, total_original>>
PipeIdle ==
    /\ processed_dir = <<>> /\ sql_dir = <<>> /\ nosql_dir = <<>>
    /\ total_processed = 0 /\ total_original = 0

queryVars == <<request, results, pending, runner>>
QueryIdle == request = <<>> /\ results = <<>> /\ pending = <<>> /\ runner = <<>>

resourceVars == <<op, at, handles, attempt>>
ResourcesIdle == op = "" /\ at = 0 /\ handles = <<>> /\ attempt = 0

\* the query layer and the resources of the operations
appVars == <<queryVars, resourceVars>>
AppIdle == QueryIdle /\ ResourcesIdle

\* everything about files on disk and the databases
fileVars == <<namesVars, loadVars, pipeVars, appVars>>
FilesIdle == NamesIdle /\ LoadIdle /\ PipeIdle /\ AppIdle

\* the arguments are drawn; no normalizer has been called yet
Init ==
    /\ fn = "" /\ as_type = "" /\ ret = None
    /\ \/ arg \in {None} \cup {PyStr(x) : x \in RawStrings} /\ arg2 = None
       \/ arg \in CoordCells /\ arg2 \in CoordCells
    /\ CleanerIdle
    /\ FilesIdle

CallCleanString ==
    /\ fn = "" /\ fn' = "clean_string"
    /\ ret' = clean_string(arg)
    /\ UNCHANGED <<arg, arg2, as_type, cleanerVars, fileVars>>

CallCleanNumeric ==
    /\ fn = "" /\ fn' = "clean_numeric"
    /\ \E data_type_arg \in {"int", "float"} :
          /\ as_type' = data_type_arg
          /\ ret' = clean_numeric(arg, data_type_arg)
    /\ UNCHANGED <<arg, arg2, cleanerVars, fileVars>>

CallCleanYear ==
    /\ fn = "" /\ fn' = "clean_year"
    /\ ret' = clean_year(arg)
    /\ UNCHANGED <<arg, arg2, as_type, cleanerVars, fileVars>>

CallStandardizeMake ==
    /\ fn = "" /\ fn' = "standardize_make"
    /\ ret' = standardize_make(arg)
    /\ UNCHANGED <<arg, arg2, as_type, cleanerVars, fileVars>>

CallValidateCoordinates ==
    /\ fn = "" /\ fn' = "validate_coordinates"
    /\ ret' = validate_coordinates(arg, arg2)
    /\ UNCHANGED <<arg, arg2, as_type, cleanerVars, fileVars>>

Next ==
    \/ CallCleanString
    \/ CallCleanNumeric
    \/ CallCleanYear
    \/ CallStandardizeMake
    \/ CallValidateCoordinates

Spec == Init /\ [][Next]_vars

-----------------------------------------------------------------------------
(* Rows and records: functions from column names to values.                *)

EmptyRow == [c \in {} |-> None]

\* row.get(col)
Get(row, col) == IF col \in DOMAIN row THEN row[col] ELSE None

\* row[col] = val
Put(row, col, val) == [c \in DOMAIN row \cup {col} |-> IF c = col THEN val ELSE row[c]]

\* if cond: row[col] = val
PutIf(cond, row, col, val) == IF cond THEN Put(row, col, val) ELSE row

\* the aliases consulted from the last to the first
RECURSIVE GetAnyLast(_, _)
GetAnyLast(row, cols) == IF Len(cols) = 1 THEN Get(row, cols[1])
                         ELSE Or(GetAnyLast(row, Tail(cols)), Get(row, cols[1]))

\* row.get(a) or row.get(b) or ... over the aliases in list order
RECURSIVE GetAny(_, _)
GetAny(row, cols) == IF Len(cols) = 1 THEN Get(row, cols[1])
                     ELSE Or(Get(row, cols[1]), GetAny(row, Tail(cols)))

\* the first exception among the values of calls made in this order, None if none
RECURSIVE FirstRaise(_)
FirstRaise(calls) == IF calls = <<>> THEN None
                     ELSE IF IsRaise(Head(calls)) THEN Head(calls)
                     ELSE FirstRaise(Tail(calls))

\* what one iteration of a cleaner's for-loop does with its row
Emit(rec) == [o |-> "emit", rec |-> rec]
Skip == [o |-> "skip"]
Crash(exc) == [o |-> "raise", exc |-> exc]

MinVinLen == 10

\* the rest of the loop body of clean_ev_population_data, once the
\* normalizers have been applied to the selected cells
PopulationRecord(make, model, year, ev_type, electric_range, price, state, city, county, vin) ==
    LET r1 == Put(Put(EmptyRow, "make", make), "model", model)
        r2 == PutIf(Truthy(year), r1, "model_year", year)
        r3 == PutIf(Truthy(ev_type), r2, "electric_vehicle_type", ev_type)
        r4 == PutIf(Truthy(electric_range) /\ Positive(electric_range), r3,
                    "electric_range", electric_range)
        r5 == PutIf(Truthy(price) /\ Positive(price), r4, "base_msrp", price)
        r6 == PutIf(Truthy(state), r5, "state", state)
        r7 == PutIf(Truthy(city), r6, "city", city)
        r8 == PutIf(Truthy(county), r7, "county", county)
        r9 == PutIf(Truthy(vin) /\ Len(vin.v) >= MinVinLen, r8, "vin_1_10", vin)
        early == FirstRaise(<<make, model>>)
        late == FirstRaise(<<year, ev_type, electric_range, price, state, city, county, vin>>)
    IN  IF early # None THEN Crash(early.v)
        ELSE IF ~Truthy(make) \/ ~Truthy(model) THEN Skip
        ELSE IF late # None THEN Crash(late.v)
        ELSE IF /\ Truthy(Get(r9, "make")) /\ Truthy(Get(r9, "model"))
                /\ (Truthy(Get(r9, "state")) \/ Truthy(Get(r9, "city")))
             THEN Emit(r9)
        ELSE Skip

\* the body of the for-loop of clean_ev_population_data
CleanPopulationRow(row) ==
    PopulationRecord(
        standardize_make(GetAny(row, <<"make", "Make">>)),
        clean_string(GetAny(row, <<"model", "Model">>)),
        clean_year(GetAny(row, <<"model_year", "Model Year", "year", "Year">>)),
        clean_string(GetAny(row, <<"electric_vehicle_type", "Electric Vehicle Type",
                                   "EV Type">>)),
        clean_numeric(GetAny(row, <<"electric_range", "Electric Range", "range">>), "int"),
        clean_numeric(GetAny(row, <<"base_msrp", "Base MSRP", "MSRP", "price">>), "float"),
        clean_string(GetAny(row, <<"state", "State">>)),
        clean_string(GetAny(row, <<"city", "City">>)),
        clean_string(GetAny(row, <<"county", "County">>)),
        clean_string(GetAny(row, <<"vin_1_10", "VIN (1-10)", "VIN", "vin">>)))

\* the list without its one-letter spelling
TrueStringsNoT == { <<"T","R","U","E">>, <<"Y","E","S">>, <<"1">> }

\* the spellings is_fast_dc takes as true: ['TRUE', 'YES', '1', 'T']
TrueStrings == { <<"T","R","U","E">>, <<"Y","E","S">>, <<"1">>, <<"T">> }

\* the rest of the loop body of clean_charging_stations_data
StationRecord(coords, country, city, power, ports, power_class, is_fast, connector, network, status) ==
    LET r1 == Put(Put(EmptyRow, "latitude", coords[1]), "longitude", coords[2])
        r2 == Put(r1, "country_code", PyStr(Upper(country.v)))
        r3 == PutIf(Truthy(city), r2, "city", city)
        r4 == PutIf(Truthy(power) /\ Positive(power), r3, "power_kw", power)
        r5 == PutIf(Truthy(ports) /\ Positive(ports), r4, "ports", ports)
        r6 == PutIf(Truthy(power_class), r5, "power_class", power_class)
        r7 == PutIf(is_fast # None, r6, "is_fast_dc",
                    IF is_fast.t = "str" THEN PyBool(Upper(is_fast.v) \in TrueStrings)
                    ELSE PyBool(Truthy(is_fast)))
        r8 == PutIf(Truthy(connector), r7, "connector_type", connector)
        r9 == PutIf(Truthy(network), r8, "network", network)
        r10 == PutIf(Truthy(status), r9, "status", status)
        late == FirstRaise(<<city, power, ports, power_class, connector, network, status>>)
    IN  IF coords[1] = None \/ coords[2] = None THEN Skip
        ELSE IF IsRaise(country) THEN Crash(country.v)
        ELSE IF ~Truthy(country) THEN Skip
        ELSE IF late # None THEN Crash(late.v)
        ELSE Emit(r10)

\* the body of the for-loop of clean_charging_stations_data
CleanStationRow(row) ==
    StationRecord(
        validate_coordinates(Get(row, "latitude"), Get(row, "longitude")),
        clean_string(GetAny(row, <<"country_code", "country">>)),
        clean_string(Get(row, "city")),
        clean_numeric(GetAny(row, <<"power_kw", "power">>), "float"),
        clean_numeric(Get(row, "ports"), "int"),
        clean_string(Get(row, "power_class")),
        Get(row, "is_fast_dc"),
        clean_string(Get(row, "connector_type")),
        clean_string(GetAny(row, <<"network", "operator">>)),
        clean_string(Get(row, "status")))

\* the rest of the loop body of clean_ev_sales_data
SalesRecord(region, year, parameter, value, unit, mode, powertrain) ==
    LET r1 == Put(Put(EmptyRow, "region", region), "year", year)
        r2 == PutIf(Truthy(parameter), r1, "parameter", parameter)
        r3 == PutIf(value # None, r2, "value", value)
        r4 == PutIf(Truthy(unit), r3, "unit", unit)
        r5 == PutIf(Truthy(mode), r4, "mode", mode)
        r6 == PutIf(Truthy(powertrain), r5, "powertrain", powertrain)
        late == FirstRaise(<<parameter, value, unit, mode, powertrain>>)
    IN  IF IsRaise(region) THEN Crash(region.v)
        ELSE IF ~Truthy(region) THEN Skip
        ELSE IF IsRaise(year) THEN Crash(year.v)
        ELSE IF ~Truthy(year) THEN Skip
        ELSE IF late # None THEN Crash(late.v)
        ELSE Emit(r6)

\* the body of the for-loop of clean_ev_sales_data
CleanSalesRow(row) ==
    SalesRecord(
        clean_string(GetAny(row, <<"region", "country">>)),
        clean_year(Get(row, "year")),
        clean_string(GetAny(row, <<"parameter", "category">>)),
        clean_numeric(Get(row, "value"), "float"),
        clean_string(Get(row, "unit")),
        clean_string(Get(row, "mode")),
        clean_string(Get(row, "powertrain")))

-----------------------------------------------------------------------------
(* Raw files: each row is a base row with some cells changed or added.  An *)
(* empty cell is the empty string, as csv.DictReader delivers it.          *)

\* row with the cells of patch written over it
Patch(row, patch) == [c \in DOMAIN row \cup DOMAIN patch |->
                        IF c \in DOMAIN patch THEN patch[c] ELSE row[c]]

\* a vehicle row that is kept
PopulationBase ==
    ("make" :> PyStr(<<"t","e","s","l","a">>))
    @@ ("model" :> PyStr(<<"M","o","d","e","l",SP,"3">>))
    @@ ("state" :> PyStr(<<"W","A">>))
    @@ ("model_year" :> PyStr(<<"2","0","2","1">>))

\* rows of a vehicle population file
PopulationRows ==
    {
      Patch(PopulationBase, EmptyRow),
      Patch(PopulationBase, ("make" :> PyStr(<<>>))
            @@ ("Make" :> PyStr(<<"v","w">>))),
      Patch(PopulationBase, ("make" :> PyStr(<<"N","U","L","L">>))
            @@ ("Make" :> PyStr(<<"v","w">>))),
      Patch(PopulationBase, ("make" :> PyStr(<<>>))),
      Patch(PopulationBase, ("model" :> PyStr(<<"N","/","A">>))),
      Patch(PopulationBase, ("state" :> PyStr(<<>>))
            @@ ("city" :> PyStr(<<"S","e","a","t","t","l","e">>))),
      Patch(PopulationBase, ("state" :> PyStr(<<>>))),
      Patch(PopulationBase, ("model_year" :> PyStr(<<"1","9","8","5">>))),
      Patch(PopulationBase, ("model_year" :> PyStr(<<"i","n","f">>))),
      Patch(PopulationBase, ("model_year" :> PyStr(<<>>))
            @@ ("Year" :> PyStr(<<"2","0","3","0",".","0">>))),
      Patch(PopulationBase, ("electric_range" :> PyStr(<<"2","5","0",".","9">>))),
      Patch(PopulationBase, ("electric_range" :> PyStr(<<"0">>))),
      Patch(PopulationBase, ("electric_range" :> PyStr(<<"1","e","9","9","9">>))),
      Patch(PopulationBase, ("base_msrp" :> PyStr(<<"$","3","5",",","0","0","0">>))),
      Patch(PopulationBase, ("base_msrp" :> PyStr(<<"-","1">>))),
      Patch(PopulationBase, ("base_msrp" :> PyStr(<<"-","n","a","n">>))),
      Patch(PopulationBase, ("electric_range" :> PyStr(<<"-","3">>))),
      Patch(PopulationBase, ("vin_1_10" :> PyStr(<<"5","Y","J","3","E","1","E","A","7","K">>))),
      Patch(PopulationBase, ("VIN" :> PyStr(<<"S","H","O","R","T">>))),
      Patch(PopulationBase, ("model" :> PyStr(<<NUL,SP,"X">>))),
      Patch(PopulationBase, ("county" :> PyStr(<<"K","i","n","g">>))
            @@ ("electric_vehicle_type" :> PyStr(<<"B","E","V">>))),
      Patch(PopulationBase, ("make" :> PyStr(<<"o","b","s","c","u","r","e",SP,"c","o">>))),
      Patch(PopulationBase, ("Make" :> PyStr(<<"v","w">>))),
      Patch(PopulationBase, ("city" :> PyStr(<<SP>>))
            @@ ("City" :> PyStr(<<"S","e","a","t","t","l","e">>))),
      Patch(PopulationBase, ("model_year" :> PyStr(<<>>))
            @@ ("Model Year" :> PyStr(<<"2","0","1","5">>))
            @@ ("Year" :> PyStr(<<"2","0","3","0">>)))
    }

\* a charging station row that is kept
StationBase ==
    ("latitude" :> PyStr(<<"4","7",".","6">>))
    @@ ("longitude" :> PyStr(<<"-","1","2","2",".","3">>))
    @@ ("country_code" :> PyStr(<<"u","s">>))

\* rows of a charging stations file
StationRows ==
    {
      Patch(StationBase, EmptyRow),
      Patch(StationBase, ("latitude" :> PyStr(<<>>))),
      Patch(StationBase, ("latitude" :> PyStr(<<>>))
            @@ ("city" :> PyStr(<<"B","e","r","l","i","n">>))
            @@ ("power_kw" :> PyStr(<<"5","0">>))
            @@ ("ports" :> PyStr(<<"2">>))
            @@ ("is_fast_dc" :> PyStr(<<"T","R","U","E">>))
            @@ ("status" :> PyStr(<<"o","p","e","n">>))),
      Patch(StationBase, ("latitude" :> PyStr(<<"0">>))
            @@ ("longitude" :> PyStr(<<"0">>))),
      Patch(StationBase, ("longitude" :> PyStr(<<"2","0","0",".","0">>))),
      Patch(StationBase, ("latitude" :> PyStr(<<"a","b","c">>))),
      Patch(StationBase, ("latitude" :> PyStr(<<"9","0">>))
            @@ ("longitude" :> PyStr(<<"-","1","8","0">>))),
      Patch(StationBase, ("country_code" :> PyStr(<<>>))
            @@ ("country" :> PyStr(<<"d","e">>))),
      Patch(StationBase, ("country_code" :> PyStr(<<>>))),
      Patch(StationBase, ("power_kw" :> PyStr(<<"5","0",".","5">>))),
      Patch(StationBase, ("power_kw" :> PyStr(<<"0">>))),
      Patch(StationBase, ("power_kw" :> PyStr(<<>>))
            @@ ("power" :> PyStr(<<"-","7">>))),
      Patch(StationBase, ("power_kw" :> PyStr(<<"5","0">>))
            @@ ("power" :> PyStr(<<"7">>))),
      Patch(StationBase, ("ports" :> PyStr(<<"4">>))),
      Patch(StationBase, ("ports" :> PyStr(<<"i","n","f">>))),
      Patch(StationBase, ("ports" :> PyStr(<<"0">>))),
      Patch(StationBase, ("is_fast_dc" :> PyStr(<<"t","r","u","e">>))),
      Patch(StationBase, ("is_fast_dc" :> PyStr(<<"n","o">>))),
      Patch(StationBase, ("is_fast_dc" :> PyStr(<<"Y","e","s">>))),
      Patch(StationBase, ("is_fast_dc" :> PyStr(<<"1">>))),
      Patch(StationBase, ("is_fast_dc" :> PyStr(<<"t">>))),
      Patch(StationBase, ("is_fast_dc" :> PyStr(<<SP,"t","r","u","e">>))),
      Patch(StationBase, ("is_fast_dc" :> PyStr(<<>>))),
      Patch(StationBase, ("city" :> PyStr(<<"B","e","r","l","i","n">>))
            @@ ("operator" :> PyStr(<<"I","o","n","i","t","y">>))
            @@ ("status" :> PyStr(<<"o","p","e","n">>))
            @@ ("connector_type" :> PyStr(<<"C","C","S">>))
            @@ ("power_class" :> PyStr(<<NUL,SP,"D","C">>)))
    }

\* a sales row that is kept
SalesBase ==
    ("region" :> PyStr(<<"E","u","r","o","p","e">>))
    @@ ("year" :> PyStr(<<"2","0","2","0">>))
    @@ ("value" :> PyStr(<<"1","0","0">>))

\* rows of a sales file
SalesRows ==
    {
      Patch(SalesBase, EmptyRow),
      Patch(SalesBase, ("region" :> PyStr(<<>>))
            @@ ("country" :> PyStr(<<"C","h","i","n","a">>))),
      Patch(SalesBase, ("country" :> PyStr(<<"C","h","i","n","a">>))),
      Patch(SalesBase, ("region" :> PyStr(<<>>))),
      Patch(SalesBase, ("year" :> PyStr(<<"1","9","8","5">>))),
      Patch(SalesBase, ("year" :> PyStr(<<"i","n","f">>))),
      Patch(SalesBase, ("year" :> PyStr(<<>>))),
      Patch(SalesBase, ("year" :> PyStr(<<"1","9","9","0">>))),
      Patch(SalesBase, ("year" :> PyStr(<<"2","0","3","0">>))),
      Patch(SalesBase, ("year" :> PyStr(<<"2","0","3","1">>))),
      Patch(SalesBase, ("value" :> PyStr(<<"-","5">>))),
      Patch(SalesBase, ("value" :> PyStr(<<"0">>))),
      Patch(SalesBase, ("value" :> PyStr(<<"a","b","c">>))),
      Patch(SalesBase, ("value" :> PyStr(<<>>))),
      Patch(SalesBase, ("value" :> PyStr(<<"1","2",".","9">>))),
      Patch(SalesBase, ("value" :> PyStr(<<"-","n","a","n">>))),
      Patch(SalesBase, ("category" :> PyStr(<<"E","V",SP,"s","a","l","e","s">>))
            @@ ("unit" :> PyStr(<<"V","e","h","i","c","l","e","s">>))
            @@ ("mode" :> PyStr(<<"C","a","r","s">>))
            @@ ("powertrain" :> PyStr(<<"B","E","V">>))),
      Patch(SalesBase, ("region" :> PyStr(<<NUL,"N","U","L","L">>)))
    }

RowsOf(dt) ==
    CASE dt = "ev_population" -> PopulationRows
      [] dt = "charging_stations" -> StationRows
      [] dt = "ev_sales" -> SalesRows

DataTypes == {"ev_population", "charging_stations", "ev_sales"}

NormIdle == fn = "" /\ arg = None /\ arg2 = None /\ as_type = "" /\ ret = None

-----------------------------------------------------------------------------
(* The cleaners: one action per iteration of the for-loop over raw_data.   *)

\* a cleaner is called on a raw file of its kind
InitClean ==
    /\ NormIdle
    /\ FilesIdle
    /\ data_type \in DataTypes
    /\ raw_data \in SeqsUpTo(RowsOf(data_type), MaxRows)
    /\ first_raw = raw_data
    /\ i = 0 /\ cleaned_data = <<>> /\ pc = "loop" /\ pass = 1

\* one iteration: the row is appended, skipped (continue), or an exception
\* leaves the cleaner and its cleaned_data is lost with the frame
Iterate(outcome) ==
    /\ i' = i + 1
    /\ CASE outcome.o = "emit" ->
              /\ cleaned_data' = Append(cleaned_data, outcome.rec) /\ pc' = "loop"
         [] outcome.o = "skip" ->
              /\ cleaned_data' = cleaned_data /\ pc' = "loop"
         [] outcome.o = "raise" ->
              /\ cleaned_data' = <<>> /\ pc' = "raised"
    /\ UNCHANGED <<normVars, fileVars, data_type, raw_data, pass, first_raw>>

clean_ev_population_data ==
    /\ pc = "loop" /\ data_type = "ev_population" /\ i < Len(raw_data)
    /\ Iterate(CleanPopulationRow(raw_data[i + 1]))

clean_charging_stations_data ==
    /\ pc = "loop" /\ data_type = "charging_stations" /\ i < Len(raw_data)
    /\ Iterate(CleanStationRow(raw_data[i + 1]))

clean_ev_sales_data ==
    /\ pc = "loop" /\ data_type = "ev_sales" /\ i < Len(raw_data)
    /\ Iterate(CleanSalesRow(raw_data[i + 1]))

\* return cleaned_data
Return ==
    /\ pc = "loop" /\ i = Len(raw_data)
    /\ pc' = "returned"
    /\ UNCHANGED <<normVars, fileVars, data_type, raw_data, i, cleaned_data, pass, first_raw>>

\* the records a cleaner returned are handed to the same cleaner again,
\* under the same field names
CleanAgain ==
    /\ pc = "returned" /\ pass = 1
    /\ raw_data' = cleaned_data
    /\ cleaned_data' = <<>> /\ i' = 0 /\ pc' = "loop" /\ pass' = 2
    /\ UNCHANGED <<normVars, fileVars, data_type, first_raw>>

NextClean ==
    \/ clean_ev_population_data
    \/ clean_charging_stations_data
    \/ clean_ev_sales_data
    \/ Return
    \/ CleanAgain

SpecClean == InitClean /\ [][NextClean]_vars

-----------------------------------------------------------------------------
(* Properties of the field normalizers (specification Spec).               *)

\* C1: for every input string, clean_string returns either none or a string
\* that is non-empty and not whitespace-only, also when control characters
\* are mixed with spaces and removed after the strip.
C1_CleanStringNeverBlank ==
    fn = "clean_string" =>
        \/ ret = None
        \/ ret.t = "str" /\ ret.v # <<>> /\ Strip(ret.v) # <<>>

\* C2: for every string whose trimmed form equals, ignoring letter case, one
\* of NULL, None, N/A or the empty string, clean_string returns none.
C2_NullSentinelsAnyCase ==
    (/\ fn = "clean_string" /\ arg.t = "str"
     /\ Lower(Strip(arg.v)) \in {<<>>, <<"n","u","l","l">>, <<"n","o","n","e">>, <<"n","/","a">>})
        => ret = None

\* C3: no exception escapes a field normalizer: clean_string, clean_numeric
\* with either kind, clean_year, standardize_make and validate_coordinates
\* each return a value or none for every raw input, and clean_numeric returns
\* none whenever its text does not parse as a number.
C3_NoExceptionEscapes ==
    /\ fn \in {"clean_string", "clean_numeric", "clean_year", "standardize_make"}
          => ~IsRaise(ret)
    /\ fn = "validate_coordinates" => ~IsRaise(ret[1]) /\ ~IsRaise(ret[2])
    /\ (/\ fn = "clean_numeric" /\ arg.t = "str"
        /\ IsRaise(ParseFloat(Strip(RemoveSymbols(arg.v)))))
          => ret = None

\* the cell is a str that parses as a number x with -bound <= x <= bound
ParsesWithin(cell, bound) ==
    /\ cell.t = "str"
    /\ LET f == ParseFloat(cell.v)
       IN  /\ ~IsRaise(f) /\ f.k = "fin"
           /\ -(bound * Scale) <= f.v /\ f.v <= bound * Scale

C5_YearInRangeOrNone ==
    fn = "clean_year" =>
        LET y == clean_numeric(arg, "int")
        IN  IF ~IsRaise(y) /\ y # None /\ 1990 <= y.v /\ y.v <= 2030
            THEN ret = PyInt(y.v)
            ELSE ret = None

-----------------------------------------------------------------------------
(* Properties of the cleaners (specification SpecClean).                   *)

\* the normalizer produced a value that is set
Present(x) == ~IsRaise(x) /\ Truthy(x)

Returned == pc \in {"returned", "raised"}

\* C6: in every record the vehicle cleaner emits, make and model are non-empty
\* strings, state or city is present, model_year if present is an integer in
\* [1990, 2030], electric_range if present is a positive integer, base_msrp if
\* present is a positive number, and vin_1_10 if present has length >= 10.
C6_VehicleRecordInvariant ==
    data_type = "ev_population" =>
        \A n \in 1..Len(cleaned_data) :
            LET rec == cleaned_data[n]
            IN  /\ {"make", "model"} \subseteq DOMAIN rec
                /\ rec["make"].t = "str" /\ rec["make"].v # <<>>
                /\ rec["model"].t = "str" /\ rec["model"].v # <<>>
                /\ "state" \in DOMAIN rec \/ "city" \in DOMAIN rec
                /\ "model_year" \in DOMAIN rec =>
                      /\ rec["model_year"].t = "int"
                      /\ 1990 <= rec["model_year"].v /\ rec["model_year"].v <= 2030
                /\ "electric_range" \in DOMAIN rec =>
                      rec["electric_range"].t = "int" /\ rec["electric_range"].v > 0
                /\ "base_msrp" \in DOMAIN rec =>
                      /\ rec["base_msrp"].t = "float" /\ rec["base_msrp"].k # "nan"
                      /\ rec["base_msrp"].v > 0
                /\ "vin_1_10" \in DOMAIN rec =>
                      rec["vin_1_10"].t = "str" /\ Len(rec["vin_1_10"].v) >= 10

\* a vehicle file was cleaned into two records, one with a price and a year,
\* one with a VIN prefix
C6_Witness ==
    /\ data_type = "ev_population" /\ pc = "returned" /\ pass = 1
    /\ Len(cleaned_data) = 2
    /\ {"base_msrp", "model_year"} \subseteq DOMAIN cleaned_data[1]
    /\ "vin_1_10" \in DOMAIN cleaned_data[2]

\* the acceptance predicate of the vehicle cleaner, on the normalized fields
PopulationAccepts(row) ==
    /\ Present(standardize_make(GetAny(row, <<"make", "Make">>)))
    /\ Present(clean_string(GetAny(row, <<"model", "Model">>)))
    /\ \/ Present(clean_string(GetAny(row, <<"state", "State">>)))
       \/ Present(clean_string(GetAny(row, <<"city", "City">>)))

\* C7: the vehicle cleaner emits a record for a raw row if and only if the
\* normalized make and model are present and the normalized state or city is
\* present; an invalid optional field never causes rejection; the single row
\* {make: tesla, model: Model 3, state: WA, model_year: 2021} gives exactly one
\* record make=Tesla, model=Model 3, state=WA, model_year=2021.
C7_VehicleAcceptance ==
    (data_type = "ev_population" /\ pass = 1 /\ Returned) =>
        /\ Len(cleaned_data)
             = Cardinality({n \in 1..Len(raw_data) : PopulationAccepts(raw_data[n])})
        /\ raw_data = <<PopulationBase>> =>
              cleaned_data = << [make |-> PyStr(<<"T","e","s","l","a">>),
                                 model |-> PyStr(<<"M","o","d","e","l",SP,"3">>),
                                 state |-> PyStr(<<"W","A">>),
                                 model_year |-> PyInt(2021)] >>

\* the acceptance predicate of the charging-station cleaner
StationAccepts(row) ==
    /\ ParsesWithin(Get(row, "latitude"), 90)
    /\ ParsesWithin(Get(row, "longitude"), 180)
    /\ Present(clean_string(GetAny(row, <<"country_code", "country">>)))

\* C8: the charging-station cleaner emits a record for a raw row if and only if
\* latitude and longitude form a valid pair and a non-empty country is found
\* under country_code or country; every emitted record has latitude in
\* [-90, 90], longitude in [-180, 180], an upper-cased country_code, and
\* power_kw and ports only when positive.
C8_StationAcceptance ==
    (data_type = "charging_stations" /\ pass = 1 /\ Returned) =>
        /\ Len(cleaned_data)
             = Cardinality({n \in 1..Len(raw_data) : StationAccepts(raw_data[n])})
        /\ \A n \in 1..Len(cleaned_data) :
              LET rec == cleaned_data[n]
              IN  /\ {"latitude", "longitude", "country_code"} \subseteq DOMAIN rec
                  /\ rec["latitude"].t = "float" /\ rec["latitude"].k = "fin"
                  /\ -(90 * Scale) <= rec["latitude"].v /\ rec["latitude"].v <= 90 * Scale
                  /\ rec["longitude"].t = "float" /\ rec["longitude"].k = "fin"
                  /\ -(180 * Scale) <= rec["longitude"].v /\ rec["longitude"].v <= 180 * Scale
                  /\ rec["country_code"].t = "str"
                  /\ \A m \in 1..Len(rec["country_code"].v) : ~IsLower(rec["country_code"].v[m])
                  /\ "power_kw" \in DOMAIN rec =>
                        rec["power_kw"].k # "nan" /\ rec["power_kw"].v > 0
                  /\ "ports" \in DOMAIN rec => rec["ports"].v > 0

\* the acceptance predicate of the sales cleaner
SalesAccepts(row) ==
    /\ Present(clean_string(GetAny(row, <<"region", "country">>)))
    /\ Present(clean_year(Get(row, "year")))

\* C9: the sales cleaner emits a record for a raw row if and only if region
\* (under region or country) is present and year is a valid year in
\* [1990, 2030]; a value that parses as a number is kept unchanged whatever its
\* sign, zero and negatives included, and an unparsable value only leaves the
\* field absent.
C9_SalesAcceptance ==
    (data_type = "ev_sales" /\ pass = 1 /\ Returned) =>
        LET kept == SelectSeq(raw_data, SalesAccepts)
        IN  /\ Len(cleaned_data) = Len(kept)
            /\ \A n \in 1..Len(cleaned_data) :
                  LET value == clean_numeric(Get(kept[n], "value"), "float")
                  IN  IF value # None
                      THEN Get(cleaned_data[n], "value") = value
                      ELSE "value" \notin DOMAIN cleaned_data[n]

\* C10: cleaning is idempotent for each of the three cleaners: the records a
\* cleaner emitted, fed back into the same cleaner under the same field names,
\* come out as exactly the same records, none dropped and no field changed.
C10_CleaningIdempotent ==
    (pass = 2 /\ Returned) => (pc = "returned" /\ cleaned_data = raw_data)

-----------------------------------------------------------------------------
(* File names: detect_data_type of data_preprocessor.py and the two name   *)
(* mappings of setup_databases.py. A cleaned file keeps the stem of its    *)
(* raw file (save_cleaned_data is called with csv_file.stem), and the      *)
(* database setup names the table and the collection from that stem.       *)

\* most name parts joined into one file stem
MaxTokens == 2

\* sub in s (the str operator "in")
Contains(s, sub) ==
    \E k \in 0..(Len(s) - Len(sub)) : SubSeq(s, k + 1, k + Len(sub)) = sub

\* detect_data_type with the third test made first
DetectSalesFirst(filename) ==
    LET filename_lower == Lower(filename)
    IN  IF \/ Contains(filename_lower, <<"s","a","l","e","s">>)
           \/ Contains(filename_lower, <<"i","e","a">>)
           \/ Contains(filename_lower, <<"g","l","o","b","a","l">>)
        THEN "ev_sales"
        ELSE IF \/ Contains(filename_lower, <<"p","o","p","u","l","a","t","i","o","n">>)
                \/ Contains(filename_lower, <<"v","e","h","i","c","l","e">>)
        THEN "ev_population"
        ELSE IF \/ Contains(filename_lower, <<"c","h","a","r","g","i","n","g","_","s","t","a","t","i","o","n">>)
                \/ Contains(filename_lower, <<"s","t","a","t","i","o","n">>)
        THEN "charging_stations"
        ELSE "generic"

detect_data_type(filename) ==
    LET filename_lower == Lower(filename)
    IN  IF \/ Contains(filename_lower, <<"p","o","p","u","l","a","t","i","o","n">>)
           \/ Contains(filename_lower, <<"v","e","h","i","c","l","e">>)
        THEN "ev_population"
        ELSE IF \/ Contains(filename_lower, <<"c","h","a","r","g","i","n","g","_","s","t","a","t","i","o","n">>)
                \/ Contains(filename_lower, <<"s","t","a","t","i","o","n">>)
        THEN "charging_stations"
        ELSE IF \/ Contains(filename_lower, <<"s","a","l","e","s">>)
                \/ Contains(filename_lower, <<"i","e","a">>)
                \/ Contains(filename_lower, <<"g","l","o","b","a","l">>)
        THEN "ev_sales"
        ELSE "generic"

\* the stems of the three files the project ships
SalesStem == <<"I","E","A",SP,"G","l","o","b","a","l",SP,"E","V",SP,"D","a","t","a",SP,"2","0","2","4">>
StationsStem == <<"c","h","a","r","g","i","n","g","_","s","t","a","t","i","o","n","s","_","2","0","2","5","_","w","o","r","l","d">>
PopulationStem == <<"E","l","e","c","t","r","i","c","_","V","e","h","i","c","l","e","_","P","o","p","u","l","a","t","i","o","n","_","D","a","t","a">>

\* a dict as a set of <<key, value>> pairs; dict.get(key, default)
DictGet(dict, key, default) ==
    IF \E kv \in dict : kv[1] = key
    THEN (CHOOSE kv \in dict : kv[1] = key)[2]
    ELSE default

file_to_table_mapping ==
    { <<SalesStem, <<"e","v","_","s","a","l","e","s">>>>,
      <<StationsStem, <<"c","h","a","r","g","i","n","g","_","s","t","a","t","i","o","n","s">>>>,
      <<PopulationStem, <<"e","v","_","p","o","p","u","l","a","t","i","o","n">>>> }

file_to_collection_mapping ==
    { <<SalesStem, <<"e","v","_","s","a","l","e","s","_","d","a","t","a">>>>,
      <<StationsStem, <<"c","h","a","r","g","i","n","g","_","s","t","a","t","i","o","n","s">>>>,
      <<PopulationStem, <<"e","v","_","p","o","p","u","l","a","t","i","o","n","_","d","a","t","a">>>> }

\* table_name = file_to_table_mapping.get(file_stem, file_stem)
TableNameOf(stem) == DictGet(file_to_table_mapping, stem, stem)
\* collection_name = file_to_collection_mapping.get(file_stem, file_stem)
CollectionNameOf(stem) == DictGet(file_to_collection_mapping, stem, stem)

\* the parts file stems are made of, in mixed case
NameTokens ==
    { <<"p","o","p","u","l","a","t","i","o","n">>, <<"V","e","h","i","c","l","e">>,
      <<"c","h","a","r","g","i","n","g","_","s","t","a","t","i","o","n">>,
      <<"S","t","a","t","i","o","n">>, <<"S","A","L","E","S">>, <<"i","e","a">>,
      <<"G","l","o","b","a","l">>, <<"d","a","t","a">>, <<"E","V">> }

RECURSIVE JoinTokens(_)
JoinTokens(tokens) ==
    IF Len(tokens) = 0 THEN <<>>
    ELSE IF Len(tokens) = 1 THEN tokens[1]
    ELSE tokens[1] \o <<"_">> \o JoinTokens(Tail(tokens))

FileStems ==
    {SalesStem, StationsStem, PopulationStem}
        \cup {JoinTokens(ts) : ts \in SeqsUpTo(NameTokens, MaxTokens)}

\* a raw file of some name lies in the raw directory
InitNames ==
    /\ NormIdle
    /\ file_stem \in FileStems
    /\ data_type = "" /\ table_name = None /\ collection_name = None
    /\ raw_data = <<>> /\ i = 0 /\ cleaned_data = <<>>
    /\ pc = "raw" /\ pass = 0 /\ first_raw = <<>>
    /\ LoadIdle /\ PipeIdle /\ AppIdle

\* process_all_files: data_type = self.detect_data_type(csv_file.stem)
DetectDataType ==
    /\ pc = "raw"
    /\ data_type' = detect_data_type(file_stem)
    /\ pc' = "detected"
    /\ UNCHANGED <<normVars, fileVars, raw_data, i, cleaned_data, pass, first_raw>>

\* a file of a known kind is cleaned and saved under the stem of the raw file
SaveUnderStem ==
    /\ pc = "detected" /\ data_type \in DataTypes
    /\ pc' = "saved"
    /\ UNCHANGED <<normVars, fileVars, data_type, raw_data, i, cleaned_data, pass, first_raw>>

\* setup_postgresql names the table of the saved CSV file
NameTable ==
    /\ pc = "saved" /\ table_name = None
    /\ table_name' = PyStr(TableNameOf(file_stem))
    /\ UNCHANGED <<normVars, cleanerVars, loadVars, pipeVars, appVars, file_stem, collection_name>>

\* setup_mongodb names the collection of the saved JSON file
NameCollection ==
    /\ pc = "saved" /\ collection_name = None
    /\ collection_name' = PyStr(CollectionNameOf(file_stem))
    /\ UNCHANGED <<normVars, cleanerVars, loadVars, pipeVars, appVars, file_stem, table_name>>

NextNames ==
    \/ DetectDataType
    \/ SaveUnderStem
    \/ NameTable
    \/ NameCollection

SpecNames == InitNames /\ [][NextNames]_vars

-----------------------------------------------------------------------------
(* Column types: guess_column_type of setup_databases.py, applied to the   *)
(* values one column has in the sampled rows of a CSV file.                *)

\* most runs of equal cells in one column sample
MaxRuns == 2

\* non_empty_values[:20], the values the numeric test reads
NumericSample == 20
\* non_empty_values[:50], the values the length test reads
LengthSample == 50
\* max_length <= 50 and max_length <= 150
ShortLimit == 50
MediumLimit == 150

\* a column type, or what a call returns in general when it is not a Python value
SqlType(name) == [t |-> "type", v |-> name]

\* s[:n]
Prefix(s, n) == SubSeq(s, 1, IF n < Len(s) THEN n ELSE Len(s))

\* [v.strip() for v in values if v and v.strip()]
NonBlank(v) == v # <<>> /\ Strip(v) # <<>>
NonEmptyValues(values) ==
    LET kept == SelectSeq(values, NonBlank)
    IN  [k \in 1..Len(kept) |-> Strip(kept[k])]

\* one pass of the loop body over v: the float value, then the test
\* '.' in v or float_val != int(float_val); an exception of float() or int(),
\* or whether v sets has_decimal
NumericCheck(v) ==
    LET float_val == ParseFloat(v)
    IN  IF IsRaise(float_val) THEN float_val
        ELSE IF Contains(v, <<".">>) THEN PyBool(TRUE)
        ELSE LET int_val == FloatToInt(float_val)
             IN  IF IsRaise(int_val) THEN int_val
                 ELSE PyBool(float_val.v # int_val.v * Scale)

\* max(len(str(v)) for v in vs)
MaxLength(vs) ==
    CHOOSE n \in {Len(vs[k]) : k \in 1..Len(vs)} : \A k \in 1..Len(vs) : Len(vs[k]) <= n

LengthType(max_length) ==
    IF max_length <= ShortLimit THEN SqlType("VARCHAR(100)")
    ELSE IF max_length <= MediumLimit THEN SqlType("VARCHAR(200)")
    ELSE SqlType("TEXT")

\* the rest of guess_column_type once the loop has run over the checked values:
\* the first exception ends the loop; ValueError and TypeError are caught and
\* clear all_numeric, any other exception leaves the function
TypeAfterChecks(non_empty_values, checks, exc) ==
    IF exc # None /\ exc.v \notin {"ValueError", "TypeError"} THEN exc
    ELSE IF exc = None
    THEN IF \E k \in 1..Len(checks) : checks[k].v
         THEN SqlType("DECIMAL(15,4)") ELSE SqlType("INTEGER")
    ELSE LengthType(MaxLength(Prefix(non_empty_values, LengthSample)))

ChecksOf(vs) == [k \in 1..Len(vs) |-> NumericCheck(vs[k])]

TypeOfNonEmpty(non_empty_values, checks) ==
    TypeAfterChecks(non_empty_values, checks, FirstRaise(checks))

guess_column_type(values) ==
    IF NonEmptyValues(values) = <<>> THEN SqlType("TEXT")
    ELSE TypeOfNonEmpty(NonEmptyValues(values),
                        ChecksOf(Prefix(NonEmptyValues(values), NumericSample)))

\* a text of n letters
Letters(n) == [k \in 1..n |-> "x"]

\* the texts of single cells
SampleCells ==
    { <<>>, <<SP>>, <<"7">>, <<"-","3">>, <<SP,"1","2",SP>>, <<"2",".","5">>,
      <<"4",".","0">>, <<"1","e","3">>, <<"5","e","-","1">>, <<"a","b","c">>,
      <<"n","a","n">>, <<"i","n","f">>, <<"1","e","9","9","9">>,
      <<"1",".","0","e","9","9","9">>,
      Letters(ShortLimit), Letters(ShortLimit + 1), Letters(60),
      Letters(MediumLimit), Letters(MediumLimit + 1), Letters(500) }

\* a run of equal cells: single cells, and fillers up to the two windows
Runs ==
    {<<c, 1>> : c \in SampleCells}
        \cup ({<<"7">>, <<"a","b","c">>, <<>>}
                \X {NumericSample - 1, NumericSample, LengthSample - 1, LengthSample})

RECURSIVE Unroll(_)
Unroll(runs) ==
    IF runs = <<>> THEN <<>>
    ELSE [k \in 1..Head(runs)[2] |-> Head(runs)[1]] \o Unroll(Tail(runs))

Samples == {Unroll(runs) : runs \in SeqsUpTo(Runs, MaxRuns)}

\* the values of one column over the sampled rows
InitGuess ==
    /\ fn = "" /\ arg \in Samples /\ arg2 = None /\ as_type = "" /\ ret = None
    /\ CleanerIdle
    /\ FilesIdle

CallGuessColumnType ==
    /\ fn = "" /\ fn' = "guess_column_type"
    /\ ret' = guess_column_type(arg)
    /\ UNCHANGED <<arg, arg2, as_type, cleanerVars, fileVars>>

NextGuess == CallGuessColumnType

SpecGuess == InitGuess /\ [][NextGuess]_vars

-----------------------------------------------------------------------------
(* The relational load: setup_postgresql and create_typed_table_from_csv   *)
(* of setup_databases.py. The connection is transactional: the statements  *)
(* of a load, DROP and CREATE included, act on the tables the open         *)
(* transaction sees (working), conn.commit() makes them the committed      *)
(* tables and conn.rollback() discards them.                               *)

\* most files in data/sql
MaxFiles == 2

\* `if i >= 100: break`
SampleRows == 100
\* batch_size = 1000
batch_size == 1000

\* a CSV file: its stem and its lines as csv.reader yields them, the header first
CsvFile(stem, lines) == [stem |-> stem, lines |-> lines]

\* a table: whether it exists, its column types and its rows
NoTable == [exists |-> FALSE, cols |-> <<>>, rows |-> <<>>]
NewTable(cols) == [exists |-> TRUE, cols |-> cols, rows |-> <<>>]

\* every data row is sampled
SampleEveryRow(rows) == rows

\* sample_rows: the rows before the break
SampleOf(rows) == Prefix(rows, SampleRows)

\* col_values = [row[i] if i < len(row) else '' for row in sample_rows]
ColumnValues(sample_rows, c) ==
    [k \in 1..Len(sample_rows) |->
        IF c <= Len(sample_rows[k]) THEN sample_rows[k][c] ELSE <<>>]

\* the first `with` block: headers = next(reader) raises StopIteration on a
\* file without a line; then the type of each column in header order; the
\* result is the list of column types or the exception that leaves the block
ColumnsOrRaise(types) ==
    IF FirstRaise(types) # None THEN FirstRaise(types) ELSE [t |-> "columns", v |-> types]

InferColumns(lines) ==
    IF lines = <<>> THEN Raise("StopIteration")
    ELSE ColumnsOrRaise([c \in 1..Len(lines[1]) |->
                            guess_column_type(ColumnValues(SampleOf(Tail(lines)), c))])

\* the row passed on at its own width, padded but never cut
DbRowUncut(row, width) ==
    [c \in 1..(IF Len(row) > width THEN Len(row) ELSE width) |->
        IF c <= Len(row) /\ NonBlank(row[c]) THEN PyStr(row[c]) ELSE None]

\* the row passed to the insert: `while len(row) < len(headers): row.append(None)`
\* then `[val if val and val.strip() else None for val in row[:len(headers)]]`
DbRow(row, width) ==
    [c \in 1..width |->
        IF c <= Len(row) /\ NonBlank(row[c]) THEN PyStr(row[c]) ELSE None]

\* text of an optionally signed run of digits
IsIntegerText(s) ==
    LET body == IF s # <<>> /\ Head(s) \in {"+", "-"} THEN Tail(s) ELSE s
    IN  body # <<>> /\ AllDigits(body)

\* whether the database takes the parameter val for a column of type col:
\* NULL fits every column; INTEGER takes digits with a sign and surrounding
\* blanks; DECIMAL takes a finite decimal literal; VARCHAR(n) takes n characters
Fits(val, col) ==
    \/ val = None
    \/ col.v = "TEXT"
    \/ col.v = "VARCHAR(100)" /\ Len(val.v) <= 100
    \/ col.v = "VARCHAR(200)" /\ Len(val.v) <= 200
    \/ col.v = "INTEGER" /\ IsIntegerText(Strip(val.v))
    \/ col.v = "DECIMAL(15,4)" /\ ~IsRaise(ParseFloat(val.v)) /\ ParseFloat(val.v).k = "fin"

RowFits(row, cols) == \A c \in 1..Len(cols) : Fits(row[c], cols[c])

\* position of the first row of batch the table rejects, 0 when it takes all
FirstBad(cols, batch) ==
    IF \E k \in 1..Len(batch) : ~RowFits(batch[k], cols)
    THEN CHOOSE k \in 1..Len(batch) :
            /\ ~RowFits(batch[k], cols)
            /\ \A j \in 1..(k - 1) : RowFits(batch[j], cols)
    ELSE 0

\* executemany that stops after the first row of the batch
ExecuteManyFirstOnly(table, batch, bad) ==
    [table |-> [table EXCEPT !.rows = @ \o Prefix(batch, 1)],
     exc |-> IF bad = 0 THEN None ELSE Raise("DataError")]

\* cursor.executemany(insert_sql, batch): the rows are inserted one after the
\* other; the first rejected row raises and leaves the rows before it inserted
\* in the open transaction
ExecuteMany(table, batch, bad) ==
    [table |-> [table EXCEPT !.rows = @ \o (IF bad = 0 THEN batch ELSE Prefix(batch, bad - 1))],
     exc |-> IF bad = 0 THEN None ELSE Raise("DataError")]

\* DROP TABLE IF EXISTS "t"
DropTable(db, t) == [db EXCEPT ![t] = NoTable]
\* CREATE TABLE "t" (column_def)
CreateTable(db, t, cols) == [db EXCEPT ![t] = NewTable(cols)]

\* conn.rollback() that keeps what the transaction did
RollbackKept(db_committed, db_working) == db_working
\* conn.rollback(): the open transaction is discarded
RolledBack(db_committed, db_working) == db_committed

\* the stems of the files in data/sql: two of them name the same table
LoadStems == {SalesStem, <<"e","v","_","s","a","l","e","s">>, StationsStem}
TableNames == {TableNameOf(stem) : stem \in LoadStems}

H1 == <<<<"a">>>>
H2 == <<<<"a">>, <<"b">>>>

\* the lines of the files: no line at all, a header alone, integer rows, rows
\* shorter and longer than the header with blank cells, a row the inferred
\* INTEGER column rejects inside the sample and one beyond the checked values,
\* a value on which the inference raises, and text rows
CsvContents ==
    { <<>>,
      <<H1>>,
      <<H1, <<<<"7">>>>, <<<<"8">>>>>>,
      <<H2, <<<<"7">>, <<"a","b","c">>>>, <<<<"8">>>>, <<<<"9">>, <<"x">>, <<"y">>>>,
            <<<<SP>>, <<>>>>, <<>>>>,
      <<H1, <<<<"7">>>>, <<<<"1","e","3">>>>, <<<<"8">>>>>>,
      <<H1, <<<<"i","n","f">>>>>>,
      <<H1>> \o [k \in 1..NumericSample |-> <<<<"7">>>>] \o <<<<<<"a","b","c">>>>>>,
      <<H2, <<<<"2",".","5">>, <<"a","b","c">>>>, <<<<"n","a","n">>, <<"4">>>>>> }

CsvFiles == {CsvFile(stem, lines) : stem \in LoadStems, lines \in CsvContents}

DistinctStems(files) ==
    \A j, k \in 1..Len(files) : j # k => files[j].stem # files[k].stem

\* what a table held before the first run
OldTable == [exists |-> TRUE, cols |-> <<SqlType("TEXT")>>, rows |-> <<<<PyStr(<<"o","l","d">>)>>>>]

\* the file the for-loop is at, its table and its data rows
CurFile == csv_files[file_idx + 1]
CurTable == TableNameOf(CurFile.stem)
CurRows == Tail(CurFile.lines)

\* what the load leaves alone
callVars == <<normVars, namesVars, pipeVars, appVars, data_type, raw_data, i, cleaned_data, pass,
              first_raw>>

\* the database is up, data/sql holds some files
InitLoad ==
    /\ NormIdle /\ NamesIdle /\ PipeIdle /\ AppIdle
    /\ data_type = "" /\ raw_data = <<>> /\ i = 0 /\ cleaned_data = <<>>
    /\ pass = 0 /\ first_raw = <<>>
    /\ csv_files \in {fs \in SeqsUpTo(CsvFiles, MaxFiles) : DistinctStems(fs)}
    /\ db0 \in {[t \in TableNames |-> NoTable], [t \in TableNames |-> OldTable]}
    /\ committed = db0 /\ working = db0 /\ db1 = db0 /\ executed = <<>>
    /\ file_idx = 0 /\ columns = <<>> /\ batch_data = <<>> /\ count = 0
    /\ outcomes = <<>> /\ run = 1
    /\ pc = "next"

\* create_typed_table_from_csv, first part: the file is read and the column
\* types are inferred; an exception goes to the handler of setup_postgresql
AnalyzeCsv ==
    /\ pc = "next" /\ file_idx < Len(csv_files)
    /\ IF IsRaise(InferColumns(CurFile.lines))
       THEN pc' = "failed" /\ columns' = <<>>
       ELSE pc' = "analyzed" /\ columns' = InferColumns(CurFile.lines).v
    /\ batch_data' = <<>> /\ count' = 0 /\ executed' = <<>>
    /\ UNCHANGED <<callVars, csv_files, file_idx, committed, working, outcomes, run, db0, db1>>

\* DROP TABLE IF EXISTS, CREATE TABLE
DropAndCreate ==
    /\ pc = "analyzed"
    /\ working' = CreateTable(DropTable(working, CurTable), CurTable, columns)
    /\ pc' = "rows"
    /\ UNCHANGED <<callVars, csv_files, file_idx, committed, columns, batch_data, count,
                   outcomes, run, db0, db1, executed>>

\* the insert of a batch into the table of the file
Execute(batch, result, full) ==
    /\ working' = [working EXCEPT ![CurTable] = result.table]
    /\ executed' = Append(executed, batch)
    /\ IF result.exc # None
       THEN pc' = "failed" /\ batch_data' = batch
       ELSE /\ pc' = IF full THEN "rows" ELSE "loaded"
            /\ batch_data' = IF full THEN <<>> ELSE batch

\* the batch is inserted only once it holds more than batch_size rows
AppendRowLate(batch) ==
    IF Len(batch) > batch_size
    THEN Execute(batch, ExecuteMany(working[CurTable], batch, FirstBad(columns, batch)), TRUE)
    ELSE batch_data' = batch /\ pc' = "rows" /\ working' = working /\ executed' = executed

\* one iteration of `for row in reader`; a full batch is inserted
AppendRow(batch) ==
    IF Len(batch) >= batch_size
    THEN Execute(batch, ExecuteMany(working[CurTable], batch, FirstBad(columns, batch)), TRUE)
    ELSE batch_data' = batch /\ pc' = "rows" /\ working' = working /\ executed' = executed

LoadRow ==
    /\ pc = "rows" /\ count < Len(CurRows)
    /\ count' = count + 1
    /\ AppendRow(Append(batch_data, DbRow(CurRows[count + 1], Len(columns))))
    /\ UNCHANGED <<callVars, csv_files, file_idx, committed, columns, outcomes, run, db0, db1>>

\* after the loop: `if batch_data: cursor.executemany(...)`, then the function returns
InsertRemaining ==
    /\ pc = "rows" /\ count = Len(CurRows)
    /\ IF batch_data # <<>>
       THEN Execute(batch_data, ExecuteMany(working[CurTable], batch_data, FirstBad(columns, batch_data)), FALSE)
       ELSE pc' = "loaded" /\ batch_data' = batch_data /\ working' = working /\ executed' = executed
    /\ UNCHANGED <<callVars, csv_files, file_idx, committed, columns, count, outcomes, run, db0, db1>>

\* conn.commit()
Commit ==
    /\ pc = "loaded"
    /\ committed' = working
    /\ outcomes' = Append(outcomes, "ok")
    /\ file_idx' = file_idx + 1 /\ pc' = "next"
    /\ UNCHANGED <<callVars, csv_files, working, columns, batch_data, count, run, db0, db1, executed>>

\* except Exception: conn.rollback()
Rollback ==
    /\ pc = "failed"
    /\ working' = RolledBack(committed, working)
    /\ outcomes' = Append(outcomes, "failed")
    /\ file_idx' = file_idx + 1 /\ pc' = "next"
    /\ UNCHANGED <<callVars, csv_files, committed, columns, batch_data, count, run, db0, db1, executed>>

\* cursor.close(), conn.close(): the setup is complete
CloseConnection ==
    /\ pc = "next" /\ file_idx = Len(csv_files)
    /\ pc' = "done"
    /\ db1' = IF run = 1 THEN committed ELSE db1
    /\ UNCHANGED <<callVars, csv_files, file_idx, committed, working, columns, batch_data,
                   count, outcomes, run, db0, executed>>

\* the setup is run again over the same files
SetupAgain ==
    /\ pc = "done" /\ run = 1
    /\ run' = 2 /\ file_idx' = 0 /\ outcomes' = <<>> /\ pc' = "next"
    /\ UNCHANGED <<callVars, csv_files, committed, working, columns, batch_data, count, db0, db1, executed>>

NextLoad ==
    \/ AnalyzeCsv
    \/ DropAndCreate
    \/ LoadRow
    \/ InsertRemaining
    \/ Commit
    \/ Rollback
    \/ CloseConnection
    \/ SetupAgain

SpecLoad == InitLoad /\ [][NextLoad]_vars

-----------------------------------------------------------------------------
(* The load of one large file: create_typed_table_from_csv over files that *)
(* fill the batch and reach beyond the sampling windows.                   *)

\* most full batches a file fills
MaxBatches == 2

\* n data lines of one cell each
Lines(cell, n) == [k \in 1..n |-> <<cell>>]

Seven == <<"7">>
Abc == <<"a","b","c">>

\* numbers of data rows around the multiples of batch_size
BulkSizes ==
    {k * batch_size + d : k \in 0..MaxBatches, d \in {0, 1}} \cup {batch_size - 1}

\* files of integer rows of these sizes; a file whose row after the first full
\* batch is rejected by the INTEGER column; and files that differ from each
\* other only beyond the sampled rows, beyond the values checked as numbers,
\* beyond the values measured, or inside these windows
BulkContents ==
    {<<H1>> \o Lines(Seven, n) : n \in BulkSizes}
    \cup { <<H1>> \o Lines(Seven, batch_size) \o Lines(Abc, 1),
           <<H1>> \o Lines(Seven, SampleRows),
           <<H1>> \o Lines(Seven, SampleRows) \o Lines(Abc, 1),
           <<H1>> \o Lines(Seven, SampleRows - 1) \o Lines(Abc, 1),
           <<H1>> \o Lines(<<>>, SampleRows - 1) \o Lines(Seven, 1),
           <<H1>> \o Lines(<<>>, SampleRows - 1) \o Lines(Seven, 1) \o Lines(Abc, 1),
           <<H1>> \o Lines(Seven, NumericSample),
           <<H1>> \o Lines(Seven, NumericSample) \o Lines(Abc, 1),
           <<H1>> \o Lines(Seven, NumericSample) \o Lines(<<"2",".","5">>, 1),
           <<H1>> \o Lines(<<>>, 1) \o Lines(Seven, NumericSample) \o Lines(Abc, 1),
           <<H1>> \o Lines(Seven, NumericSample - 1) \o Lines(Abc, 1),
           <<H1>> \o Lines(Abc, LengthSample) \o Lines(Letters(60), 1),
           <<H1>> \o Lines(Abc, LengthSample) \o Lines(Letters(500), 1),
           <<H1>> \o Lines(Abc, LengthSample - 1) \o Lines(Letters(60), 1) }

\* the database is up and empty, data/sql holds one file
InitBulk ==
    /\ NormIdle /\ NamesIdle /\ PipeIdle /\ AppIdle
    /\ data_type = "" /\ raw_data = <<>> /\ i = 0 /\ cleaned_data = <<>>
    /\ pass = 0 /\ first_raw = <<>>
    /\ csv_files \in {<<CsvFile(SalesStem, lines)>> : lines \in BulkContents}
    /\ db0 = [t \in TableNames |-> NoTable]
    /\ committed = db0 /\ working = db0 /\ db1 = db0 /\ executed = <<>>
    /\ file_idx = 0 /\ columns = <<>> /\ batch_data = <<>> /\ count = 0
    /\ outcomes = <<>> /\ run = 1
    /\ pc = "next"

SpecBulk == InitBulk /\ [][NextLoad]_vars

-----------------------------------------------------------------------------
(* The preprocessing run: process_all_files, load_csv_data and             *)
(* save_cleaned_data of data_preprocessor.py. A directory is a function    *)
(* from file stems to what the file of that stem holds.                    *)

\* the field names of the cleaned records, spelled out
Spelling ==
    ("base_msrp" :> <<"b","a","s","e","_","m","s","r","p">>)
    @@ ("city" :> <<"c","i","t","y">>)
    @@ ("connector_type" :> <<"c","o","n","n","e","c","t","o","r","_","t","y","p","e">>)
    @@ ("country_code" :> <<"c","o","u","n","t","r","y","_","c","o","d","e">>)
    @@ ("county" :> <<"c","o","u","n","t","y">>)
    @@ ("electric_range" :> <<"e","l","e","c","t","r","i","c","_","r","a","n","g","e">>)
    @@ ("electric_vehicle_type" :> <<"e","l","e","c","t","r","i","c","_","v","e","h","i","c","l","e","_","t","y","p","e">>)
    @@ ("is_fast_dc" :> <<"i","s","_","f","a","s","t","_","d","c">>)
    @@ ("latitude" :> <<"l","a","t","i","t","u","d","e">>)
    @@ ("longitude" :> <<"l","o","n","g","i","t","u","d","e">>)
    @@ ("make" :> <<"m","a","k","e">>)
    @@ ("mode" :> <<"m","o","d","e">>)
    @@ ("model" :> <<"m","o","d","e","l">>)
    @@ ("model_year" :> <<"m","o","d","e","l","_","y","e","a","r">>)
    @@ ("network" :> <<"n","e","t","w","o","r","k">>)
    @@ ("parameter" :> <<"p","a","r","a","m","e","t","e","r">>)
    @@ ("ports" :> <<"p","o","r","t","s">>)
    @@ ("power_class" :> <<"p","o","w","e","r","_","c","l","a","s","s">>)
    @@ ("power_kw" :> <<"p","o","w","e","r","_","k","w">>)
    @@ ("powertrain" :> <<"p","o","w","e","r","t","r","a","i","n">>)
    @@ ("region" :> <<"r","e","g","i","o","n">>)
    @@ ("state" :> <<"s","t","a","t","e">>)
    @@ ("status" :> <<"s","t","a","t","u","s">>)
    @@ ("unit" :> <<"u","n","i","t">>)
    @@ ("value" :> <<"v","a","l","u","e">>)
    @@ ("vin_1_10" :> <<"v","i","n","_","1","_","1","0">>)
    @@ ("year" :> <<"y","e","a","r">>)

\* the code point of a character of a field name
Ord(c) ==
    IF IsDigit(c) THEN 48 + DigitVal(c)
    ELSE IF IsUpper(c) THEN 64 + (CHOOSE k \in 1..26 : UpperChars[k] = c)
    ELSE IF c = "_" THEN 95
    ELSE IF IsLower(c) THEN 96 + (CHOOSE k \in 1..26 : LowerChars[k] = c)
    ELSE 32

\* a < b for two str
RECURSIVE StrLess(_, _)
StrLess(a, b) ==
    IF b = <<>> THEN FALSE
    ELSE IF a = <<>> THEN TRUE
    ELSE IF Ord(Head(a)) # Ord(Head(b)) THEN Ord(Head(a)) < Ord(Head(b))
    ELSE StrLess(Tail(a), Tail(b))

\* the first of a set of field names
FirstField(fields) ==
    CHOOSE f \in fields : \A g \in fields \ {f} : StrLess(Spelling[f], Spelling[g])

\* all_fields taken from the first record only
FirstRecordFields(data) == IF data = <<>> THEN {} ELSE DOMAIN data[1]

\* sorted(all_fields)
RECURSIVE Sorted(_)
SortedFrom(fields, first) == <<first>> \o Sorted(fields \ {first})
Sorted(fields) ==
    IF fields = {} THEN <<>> ELSE SortedFrom(fields, FirstField(fields))

\* all_fields: the union of the keys of the records
AllFields(data) == UNION {DOMAIN data[n] : n \in 1..Len(data)}

\* standardized_data: every record over all_fields, None where it has no value
Standardized(data) ==
    [n \in 1..Len(data) |-> [f \in AllFields(data) |-> Get(data[n], f)]]

\* the text csv.writer puts in a cell: '' for None, str(value) otherwise
CsvCell(value) == IF value = None THEN <<>> ELSE ToStr(value)

\* what a file holds
NoFile == [t |-> "nofile"]
\* DictWriter(f, fieldnames): writeheader(), writerows(standardized_data)
CsvWritten(fieldnames, standardized_data) ==
    [t |-> "csv",
     header |-> fieldnames,
     rows |-> [n \in 1..Len(standardized_data) |->
                 [k \in 1..Len(fieldnames) |-> CsvCell(standardized_data[n][fieldnames[k]])]]]
\* json.dump(standardized_data, f)
JsonWritten(standardized_data) == [t |-> "json", docs |-> standardized_data]

\* load_csv_data: the rows csv.DictReader yields; a raw file is its stem and rows
RawFile(stem, rows) == [stem |-> stem, rows |-> rows]

\* the result of a cleaner
Returns(data) == [o |-> "return", data |-> data]

CleanRow(kind, row) ==
    CASE kind = "ev_population" -> CleanPopulationRow(row)
      [] kind = "charging_stations" -> CleanStationRow(row)
      [] kind = "ev_sales" -> CleanSalesRow(row)

IsEmit(outcome) == outcome.o = "emit"
IsCrash(outcome) == outcome.o = "raise"

\* the cleaner's loop from row k on, cleaned_so_far holding the records
\* appended before it: an exception leaves the loop, an emitted record is
\* appended, a rejected row is passed over
RECURSIVE CleanedFrom(_, _, _, _)
AfterRow(kind, rows, k, cleaned_so_far, outcome) ==
    IF IsCrash(outcome) THEN outcome
    ELSE IF IsEmit(outcome) THEN CleanedFrom(kind, rows, k + 1, Append(cleaned_so_far, outcome.rec))
    ELSE CleanedFrom(kind, rows, k + 1, cleaned_so_far)

CleanedFrom(kind, rows, k, cleaned_so_far) ==
    IF k > Len(rows) THEN Returns(cleaned_so_far)
    ELSE AfterRow(kind, rows, k, cleaned_so_far, CleanRow(kind, rows[k]))

CleanFile(kind, rows) == CleanedFrom(kind, rows, 1, <<>>)

\* the stems of the raw files: vehicle population, sales, stations, generic
VehicleStem == <<"V","e","h","i","c","l","e">>
SalesRawStem == <<"S","A","L","E","S">>
StationRawStem == <<"S","t","a","t","i","o","n">>
GenericStem == <<"d","a","t","a">>
RawStems == {VehicleStem, SalesRawStem, StationRawStem, GenericStem}

Seattle == PyStr(<<"S","e","a","t","t","l","e">>)

\* the rows of the raw files: kept rows with different optional fields, rows
\* the cleaner rejects, and a row on which it raises
VehicleKept == PopulationBase
VehicleCity == Patch(PopulationBase, ("city" :> Seattle) @@ ("state" :> PyStr(<<>>)))
VehicleRejected == Patch(PopulationBase, ("make" :> PyStr(<<>>)))
VehicleRaising == Patch(PopulationBase, ("model_year" :> PyStr(<<"i","n","f">>)))
SalesKept == SalesBase
SalesUnit == Patch(SalesBase, ("unit" :> PyStr(<<"V","e","h","i","c","l","e","s">>))
                              @@ ("value" :> PyStr(<<"a","b","c">>)))
SalesRejected == Patch(SalesBase, ("region" :> PyStr(<<>>)))
StationKept == Patch(StationBase, ("is_fast_dc" :> PyStr(<<"y","e","s">>)))
StationCity == Patch(StationBase, ("city" :> Seattle) @@ ("ports" :> PyStr(<<"4">>)))
StationRejected == Patch(StationBase, ("latitude" :> PyStr(<<"a","b","c">>)))

RawContents(stem) ==
    CASE stem = VehicleStem ->
            { <<>>, <<VehicleKept>>, <<VehicleCity, VehicleKept>>, <<VehicleRejected>>,
              <<VehicleKept, VehicleRejected, VehicleCity>>, <<VehicleKept, VehicleRaising>> }
      [] stem = SalesRawStem ->
            { <<>>, <<SalesKept>>, <<SalesRejected>>, <<SalesUnit, SalesRejected, SalesKept>> }
      [] stem = StationRawStem ->
            { <<StationKept>>, <<StationRejected>>, <<StationCity, StationKept>> }
      [] stem = GenericStem ->
            { <<>>, <<VehicleKept>> }

RawFiles == UNION {{RawFile(stem, rows) : rows \in RawContents(stem)} : stem \in RawStems}

\* the three files save_cleaned_data(data, filename) writes, None when it returns
\* before writing
SavedCsv(data) ==
    IF data = <<>> THEN None ELSE CsvWritten(Sorted(AllFields(data)), Standardized(data))
SavedJson(data) ==
    IF data = <<>> THEN None ELSE JsonWritten(Standardized(data))

\* directory dir after save_cleaned_data wrote (or did not write) file under stem
Written(dir, stem, file) == IF file = None THEN dir ELSE [dir EXCEPT ![stem] = file]

EmptyDir == [stem \in RawStems |-> NoFile]

\* what the pipeline leaves alone
pipeRest == <<normVars, namesVars, appVars, committed, working, columns, batch_data, count,
              outcomes, db0, db1, executed, i, pass, first_raw>>

\* the raw directory holds some files, the output directories are empty
InitPipeline ==
    /\ NormIdle /\ NamesIdle /\ AppIdle
    /\ committed = <<>> /\ working = <<>> /\ columns = <<>> /\ batch_data = <<>>
    /\ count = 0 /\ outcomes = <<>> /\ db0 = <<>> /\ db1 = <<>> /\ executed = <<>>
    /\ i = 0 /\ pass = 0 /\ first_raw = <<>>
    /\ csv_files \in {fs \in SeqsUpTo(RawFiles, MaxFiles) : DistinctStems(fs)}
    /\ processed_dir = EmptyDir /\ sql_dir = EmptyDir /\ nosql_dir = EmptyDir
    /\ file_idx = 0 /\ total_processed = 0 /\ total_original = 0
    /\ data_type = "" /\ raw_data = <<>> /\ cleaned_data = <<>>
    /\ run = 1 /\ pc = "next"

\* raw_data = self.load_csv_data(csv_file); `if not raw_data: continue`
SkipEmptyFile ==
    /\ pc = "next" /\ file_idx < Len(csv_files)
    /\ CurFile.rows = <<>>
    /\ raw_data' = <<>>
    /\ file_idx' = file_idx + 1
    /\ UNCHANGED <<pipeRest, pipeVars, csv_files, data_type, cleaned_data, run, pc>>

\* the file has rows: they are counted and the kind is detected from the stem
LoadAndDetect ==
    /\ pc = "next" /\ file_idx < Len(csv_files)
    /\ CurFile.rows # <<>>
    /\ raw_data' = CurFile.rows
    /\ total_original' = total_original + Len(CurFile.rows)
    /\ data_type' = detect_data_type(CurFile.stem)
    /\ pc' = "detected"
    /\ UNCHANGED <<pipeRest, csv_files, file_idx, cleaned_data, run,
                   processed_dir, sql_dir, nosql_dir, total_processed>>

\* the else branch of the dispatch: a warning, then `continue`
SkipGeneric ==
    /\ pc = "detected" /\ data_type = "generic"
    /\ file_idx' = file_idx + 1 /\ pc' = "next"
    /\ UNCHANGED <<pipeRest, pipeVars, csv_files, data_type, raw_data, cleaned_data, run>>

\* the cleaner of the file's kind returns cleaned_data
CleanerReturns(result) ==
    /\ pc = "detected" /\ data_type # "generic"
    /\ ~IsCrash(result)
    /\ cleaned_data' = result.data
    /\ pc' = "cleaned"
    /\ UNCHANGED <<pipeRest, pipeVars, csv_files, file_idx, data_type, raw_data, run>>

\* the cleaner raises: nothing in process_all_files catches the exception
CleanerRaises(result) ==
    /\ pc = "detected" /\ data_type # "generic"
    /\ IsCrash(result)
    /\ pc' = "crashed"
    /\ UNCHANGED <<pipeRest, pipeVars, csv_files, file_idx, data_type, raw_data,
                   cleaned_data, run>>

\* the dispatch on data_type calls one of the three cleaners
RunCleaner ==
    /\ pc = "detected" /\ data_type # "generic"
    /\ \E result \in {CleanFile(data_type, raw_data)} :
          \/ CleanerReturns(result)
          \/ CleanerRaises(result)

\* `if cleaned_data:` the records are counted and save_cleaned_data writes the
\* three files under csv_file.stem; otherwise only a message is printed
SaveCleaned ==
    /\ pc = "cleaned"
    /\ IF cleaned_data # <<>>
       THEN /\ total_processed' = total_processed + Len(cleaned_data)
            /\ processed_dir' = Written(processed_dir, CurFile.stem, SavedCsv(cleaned_data))
            /\ sql_dir' = Written(sql_dir, CurFile.stem, SavedCsv(cleaned_data))
            /\ nosql_dir' = Written(nosql_dir, CurFile.stem, SavedJson(cleaned_data))
       ELSE UNCHANGED <<total_processed, processed_dir, sql_dir, nosql_dir>>
    /\ file_idx' = file_idx + 1 /\ pc' = "next"
    /\ UNCHANGED <<pipeRest, csv_files, data_type, raw_data, cleaned_data, run, total_original>>

\* the final summary
Summary ==
    /\ pc = "next" /\ file_idx = Len(csv_files)
    /\ pc' = "done"
    /\ UNCHANGED <<pipeRest, pipeVars, csv_files, file_idx, data_type, raw_data,
                   cleaned_data, run>>

\* the pipeline is run again, over what the raw directory holds by then; the
\* output directories are as the first run left them
RunAgain ==
    /\ pc \in {"done", "crashed"} /\ run = 1
    /\ csv_files' \in {fs \in SeqsUpTo(RawFiles, MaxFiles) : DistinctStems(fs)}
    /\ run' = 2 /\ file_idx' = 0 /\ total_processed' = 0 /\ total_original' = 0
    /\ data_type' = "" /\ raw_data' = <<>> /\ cleaned_data' = <<>>
    /\ pc' = "next"
    /\ UNCHANGED <<pipeRest, processed_dir, sql_dir, nosql_dir>>

NextPipeline ==
    \/ SkipEmptyFile
    \/ LoadAndDetect
    \/ SkipGeneric
    \/ RunCleaner
    \/ SaveCleaned
    \/ Summary
    \/ RunAgain

SpecPipeline == InitPipeline /\ [][NextPipeline]_vars

(***************************************************************************)
(* The query layer: QueryExecutor.execute_query of                         *)
(* queries/common/unified_query_executor.py and QueryTestRunner of         *)
(* test_all_queries.py. A backend is described by what it will do with the *)
(* query: whether the query file is there, whether the database raises,    *)
(* and the rows it returns otherwise. The elapsed times stored in          *)
(* results["times"] are not followed, only the keys that hold one.         *)
(***************************************************************************)
MaxReturned == 1
MaxQueries == 2

PyList(rows) == [t |-> "list", v |-> rows]
Rows(n) == [k \in 1..n |-> "row"]

Behaviours == {[file |-> f, fails |-> e, rows |-> Rows(n)] :
                  f \in BOOLEAN, e \in BOOLEAN, n \in 0..MaxReturned}

\* load_sql_query and load_mongodb_query: the text of the file, or
\* FileNotFoundError
load_query(behaviour) ==
    IF ~behaviour.file THEN Raise("FileNotFoundError") ELSE [t |-> "query", v |-> 0]

\* SimplePostgreSQL.execute_query and SimpleMongoDB.execute_aggregation: the
\* rows as a list, or the error of the driver
run_query(query, behaviour) ==
    IF behaviour.fails THEN Raise("DatabaseError") ELSE PyList(behaviour.rows)

\* the body of one try block: load the query, then run it
LoadAndRun(behaviour) ==
    LET query == load_query(behaviour)
    IN  IF IsRaise(query) THEN query ELSE run_query(query, behaviour)

EmptyResults == [sql |-> PyList(<<>>), mongodb |-> PyList(<<>>), times |-> {}]

\* the SQL block with the time recorded before the try, whatever comes of it
SqlSideTimed(res, database_type, behaviour) ==
    IF database_type \in {"sql", "both"}
    THEN LET rows == LoadAndRun(behaviour)
         IN  IF IsRaise(rows)
             THEN [res EXCEPT !.times = @ \cup {"sql"}]
             ELSE [res EXCEPT !.sql = rows, !.times = @ \cup {"sql"}]
    ELSE res

\* if database_type in ["sql", "both"]: the rows and the time are stored when
\* nothing raised, and `except Exception` leaves results as it was
SqlSide(res, database_type, behaviour) ==
    IF database_type \in {"sql", "both"}
    THEN LET rows == LoadAndRun(behaviour)
         IN  IF IsRaise(rows)
             THEN res
             ELSE [res EXCEPT !.sql = rows, !.times = @ \cup {"sql"}]
    ELSE res

\* if database_type in ["mongodb", "both"]: the same for the pipeline;
\* _get_collection_name returns a name for every query name
MongoSide(res, database_type, behaviour) ==
    IF database_type \in {"mongodb", "both"}
    THEN LET rows == LoadAndRun(behaviour)
         IN  IF IsRaise(rows)
             THEN res
             ELSE [res EXCEPT !.mongodb = rows, !.times = @ \cup {"mongodb"}]
    ELSE res

execute_query(database_type, sql, mongodb) ==
    MongoSide(SqlSide(EmptyResults, database_type, sql), database_type, mongodb)

DatabaseTypes == {"sql", "mongodb", "both", "SQL"}

InitQuery ==
    /\ NormIdle /\ NamesIdle /\ LoadIdle /\ PipeIdle /\ ResourcesIdle
    /\ data_type = "" /\ raw_data = <<>> /\ i = 0 /\ cleaned_data = <<>>
    /\ pass = 0 /\ first_raw = <<>>
    /\ request \in {[database_type |-> d, sql |-> s, mongodb |-> m] :
                       d \in DatabaseTypes, s \in Behaviours, m \in Behaviours}
    /\ results = <<>> /\ pending = <<>> /\ runner = <<>>
    /\ pc = "call"

queryRest == <<normVars, namesVars, loadVars, pipeVars, resourceVars, data_type, raw_data, i,
               cleaned_data, pass, first_raw>>

CallExecuteQuery ==
    /\ pc = "call"
    /\ results' = execute_query(request.database_type, request.sql, request.mongodb)
    /\ pc' = "returned"
    /\ UNCHANGED <<queryRest, request, pending, runner>>

NextQuery == CallExecuteQuery

SpecQuery == InitQuery /\ [][NextQuery]_vars

\* str.lower() on the two names run_all_tests passes
LowerName(database_type) ==
    CASE database_type = "SQL" -> "sql"
      [] database_type = "MongoDB" -> "mongodb"
      [] OTHER -> database_type

\* test_query: execute_query raises no Exception (each of its try blocks
\* catches them), so the except clause of test_query has no case here
test_query(database_type, behaviour) ==
    LET result == execute_query(LowerName(database_type), behaviour, behaviour)
        data == IF LowerName(database_type) = "sql" THEN result.sql ELSE result.mongodb
    IN  IF data.t = "list"
        THEN [success |-> TRUE, row_count |-> Len(data.v), error |-> None]
        ELSE [success |-> FALSE, row_count |-> 0, error |-> "Invalid result format"]

\* a discovered query file with what its backend will do
Tests == {[database |-> d, behaviour |-> b] : d \in {"SQL", "MongoDB"}, b \in Behaviours}

NewRunner == [sql_success |-> 0, sql_failures |-> 0, mongodb_success |-> 0,
              mongodb_failures |-> 0, failed_queries |-> <<>>]

InitTests ==
    /\ NormIdle /\ NamesIdle /\ LoadIdle /\ PipeIdle /\ ResourcesIdle
    /\ data_type = "" /\ raw_data = <<>> /\ i = 0 /\ cleaned_data = <<>>
    /\ pass = 0 /\ first_raw = <<>>
    /\ request \in SeqsUpTo(Tests, MaxQueries)
    /\ pending = request
    /\ results = <<>>
    /\ runner = NewRunner
    /\ pc = "discovered"

\* if not queries: return False
NoQueries ==
    /\ pc = "discovered" /\ request = <<>>
    /\ pc' = "failed"
    /\ UNCHANGED <<queryRest, queryVars>>

StartTests ==
    /\ pc = "discovered" /\ request # <<>>
    /\ pc' = "testing"
    /\ UNCHANGED <<queryRest, queryVars>>

\* if db_types['SQL']: the test and the counters of the SQL version
TestSql ==
    /\ pc = "testing" /\ pending # <<>> /\ Head(pending).database = "SQL"
    /\ LET sql_result == test_query("SQL", Head(pending).behaviour)
       IN  /\ results' = sql_result
           /\ runner' = IF sql_result.success
                        THEN [runner EXCEPT !.sql_success = @ + 1]
                        ELSE [runner EXCEPT !.sql_failures = @ + 1,
                                            !.failed_queries =
                                                Append(@, [database |-> "SQL",
                                                           error |-> sql_result.error])]
    /\ pending' = Tail(pending)
    /\ UNCHANGED <<queryRest, request, pc>>

\* if db_types['MongoDB']: the same for the MongoDB version
TestMongoDB ==
    /\ pc = "testing" /\ pending # <<>> /\ Head(pending).database = "MongoDB"
    /\ LET mongodb_result == test_query("MongoDB", Head(pending).behaviour)
       IN  /\ results' = mongodb_result
           /\ runner' = IF mongodb_result.success
                        THEN [runner EXCEPT !.mongodb_success = @ + 1]
                        ELSE [runner EXCEPT !.mongodb_failures = @ + 1,
                                            !.failed_queries =
                                                Append(@, [database |-> "MongoDB",
                                                           error |-> mongodb_result.error])]
    /\ pending' = Tail(pending)
    /\ UNCHANGED <<queryRest, request, pc>>

\* the end of the loop: return True
FinishTests ==
    /\ pc = "testing" /\ pending = <<>>
    /\ pc' = "done"
    /\ UNCHANGED <<queryRest, queryVars>>

NextTests == NoQueries \/ StartTests \/ TestSql \/ TestMongoDB \/ FinishTests

SpecTests == InitTests /\ [][NextTests]_vars

(***************************************************************************)
(* The resources of the load and query operations. An operation is the     *)
(* sequence of its statements that open or close a handle, can raise, loop *)
(* or return; each statement names its source line, the statement that     *)
(* follows it, and for one that can raise, where the exception is caught   *)
(* (0 when it leaves the operation) and which handles the with and finally *)
(* blocks around it close on the way. conn.close() ends the cursors of the *)
(* connection with it.                                                     *)
(***************************************************************************)
max_attempts == 30

Kinds == {"conn", "cursor", "client", "file"}

Does(line, do, h, next) ==
    [line |-> line, do |-> do, h |-> h, next |-> next, other |-> 0,
     raises |-> FALSE, caught |-> 0, closes |-> {}, limit |-> 0]
MayRaise(stmt, caught, closes) ==
    [stmt EXCEPT !.raises = TRUE, !.caught = caught, !.closes = closes]
\* a for statement: its body at next, what follows the loop at other
For(line, limit, next, other) ==
    [Does(line, "for", "", next) EXCEPT !.other = other, !.limit = limit]
\* an if statement: its body at next, its else at other
If(line, next, other) == [Does(line, "if", "", next) EXCEPT !.other = other]

WaitForPostgres ==
    << For(21, max_attempts, 2, 5),
       MayRaise(Does(24, "open", "conn", 3), 1, {}),
       Does(31, "close", "conn", 4),
       Does(32, "return", "", 0),
       Does(43, "return", "", 0) >>

WaitForMongodb ==
    << For(21, max_attempts, 2, 6),
       Does(37, "open", "client", 3),
       MayRaise(Does(38, "call", "", 4), 1, {}),
       Does(39, "close", "client", 5),
       Does(40, "return", "", 0),
       Does(43, "return", "", 0) >>

CreateTypedTableFromCsv ==
    << MayRaise(Does(50, "open", "file", 2), 0, {}),
       MayRaise(Does(52, "call", "", 3), 0, {"file"}),
       Does(68, "close", "file", 4),
       MayRaise(Does(71, "call", "", 5), 0, {}),
       MayRaise(Does(72, "call", "", 6), 0, {}),
       MayRaise(Does(76, "open", "file", 7), 0, {}),
       MayRaise(Does(100, "call", "", 8), 0, {"file"}),
       Does(108, "close", "file", 9),
       Does(110, "return", "", 0) >>

SetupPostgresql ==
    << If(228, 2, 11),
       MayRaise(Does(235, "open", "conn", 3), 0, {}),
       MayRaise(Does(243, "open", "cursor", 4), 0, {}),
       For(255, MaxFiles, 5, 8),
       MayRaise(Does(261, "call", "", 6), 7, {}),
       MayRaise(Does(262, "call", "", 4), 7, {}),
       MayRaise(Does(265, "call", "", 4), 0, {}),
       Does(267, "close", "cursor", 9),
       Does(268, "close", "conn", 10),
       Does(270, "return", "", 0),
       Does(230, "return", "", 0) >>

SetupMongodb ==
    << If(275, 2, 11),
       Does(287, "open", "client", 3),
       For(300, MaxFiles, 4, 9),
       MayRaise(Does(308, "call", "", 5), 3, {}),
       MayRaise(Does(311, "open", "file", 6), 3, {}),
       MayRaise(Does(312, "call", "", 7), 3, {"file"}),
       Does(312, "close", "file", 8),
       MayRaise(Does(316, "call", "", 3), 3, {}),
       Does(325, "close", "client", 10),
       Does(327, "return", "", 0),
       Does(277, "return", "", 0) >>

PostgresExecuteQuery ==
    << MayRaise(Does(30, "open", "conn", 2), 0, {}),
       MayRaise(Does(32, "open", "cursor", 3), 0, {"conn"}),
       MayRaise(Does(33, "call", "", 4), 0, {"conn"}),
       Does(38, "close", "conn", 5),
       Does(36, "return", "", 0) >>

Operations == {"wait_for_database(postgres)", "wait_for_database(mongodb)",
               "create_typed_table_from_csv", "setup_postgresql", "setup_mongodb",
               "SimplePostgreSQL.execute_query"}

Program(operation) ==
    CASE operation = "wait_for_database(postgres)" -> WaitForPostgres
      [] operation = "wait_for_database(mongodb)" -> WaitForMongodb
      [] operation = "create_typed_table_from_csv" -> CreateTypedTableFromCsv
      [] operation = "setup_postgresql" -> SetupPostgresql
      [] operation = "setup_mongodb" -> SetupMongodb
      [] operation = "SimplePostgreSQL.execute_query" -> PostgresExecuteQuery

Statement == Program(op)[at]

\* the handles left when those of the kinds are closed; a cursor goes with
\* its connection
Closed(open, kinds) ==
    [k \in Kinds |->
        IF k \in kinds THEN IF open[k] > 0 THEN open[k] - 1 ELSE 0
        ELSE IF k = "cursor" /\ "conn" \in kinds THEN 0
        ELSE open[k]]

InitResources ==
    /\ NormIdle /\ NamesIdle /\ LoadIdle /\ PipeIdle /\ QueryIdle
    /\ data_type = "" /\ raw_data = <<>> /\ i = 0 /\ cleaned_data = <<>>
    /\ pass = 0 /\ first_raw = <<>>
    /\ op \in Operations
    /\ at = 1
    /\ handles = [k \in Kinds |-> 0]
    /\ attempt = 0
    /\ pc = "running"

resourceRest == <<normVars, namesVars, loadVars, pipeVars, queryVars, data_type, raw_data, i,
                  cleaned_data, pass, first_raw, op>>

Running(do) == pc = "running" /\ Statement.do = do

\* connect, cursor, MongoClient and open, when they succeed
Open ==
    /\ Running("open")
    /\ handles' = [handles EXCEPT ![Statement.h] = @ + 1]
    /\ at' = Statement.next
    /\ UNCHANGED <<resourceRest, attempt, pc>>

\* close, and the end of a with block
Close ==
    /\ Running("close")
    /\ handles' = Closed(handles, {Statement.h})
    /\ at' = Statement.next
    /\ UNCHANGED <<resourceRest, attempt, pc>>

\* a call that opens and closes nothing, when it succeeds
Call ==
    /\ Running("call")
    /\ at' = Statement.next
    /\ UNCHANGED <<resourceRest, handles, attempt, pc>>

\* the next attempt of range(max_attempts), the next file of glob
ForNext ==
    /\ Running("for")
    /\ attempt < Statement.limit
    /\ attempt' = attempt + 1
    /\ at' = Statement.next
    /\ UNCHANGED <<resourceRest, handles, pc>>

\* the attempts are used up; the directory has no further file
ForExit ==
    /\ Running("for")
    /\ Statement.limit = max_attempts => attempt = max_attempts
    /\ at' = Statement.other
    /\ UNCHANGED <<resourceRest, handles, attempt, pc>>

\* if not wait_for_database(...): the database is ready or it is not
IfReady ==
    /\ Running("if")
    /\ \E ready \in BOOLEAN : at' = IF ready THEN Statement.next ELSE Statement.other
    /\ UNCHANGED <<resourceRest, handles, attempt, pc>>

\* the exception is caught inside the operation, which goes on
RaiseCaught ==
    /\ pc = "running" /\ Statement.raises /\ Statement.caught # 0
    /\ handles' = Closed(handles, Statement.closes)
    /\ at' = Statement.caught
    /\ UNCHANGED <<resourceRest, attempt, pc>>

\* the exception leaves the operation
RaisePropagates ==
    /\ pc = "running" /\ Statement.raises /\ Statement.caught = 0
    /\ handles' = Closed(handles, Statement.closes)
    /\ pc' = "raised"
    /\ UNCHANGED <<resourceRest, at, attempt>>

\* return True, return False, and the return of the rows
ReturnFrom ==
    /\ Running("return")
    /\ pc' = "returned"
    /\ UNCHANGED <<resourceRest, at, handles, attempt>>

NextResources ==
    Open \/ Close \/ Call \/ ForNext \/ ForExit \/ IfReady \/ RaiseCaught \/ RaisePropagates
        \/ ReturnFrom

SpecResources == InitResources /\ [][NextResources]_vars

-----------------------------------------------------------------------------
(* Properties of the file names (specification SpecNames).                 *)

\* the identifiers the query layer reads each kind of dataset under
CanonicalTable(kind) ==
    CASE kind = "ev_sales" -> <<"e","v","_","s","a","l","e","s">>
      [] kind = "charging_stations" -> <<"c","h","a","r","g","i","n","g","_","s","t","a","t","i","o","n","s">>
      [] kind = "ev_population" -> <<"e","v","_","p","o","p","u","l","a","t","i","o","n">>

CanonicalCollection(kind) ==
    CASE kind = "ev_sales" -> <<"e","v","_","s","a","l","e","s","_","d","a","t","a">>
      [] kind = "charging_stations" -> <<"c","h","a","r","g","i","n","g","_","s","t","a","t","i","o","n","s">>
      [] kind = "ev_population" -> <<"e","v","_","p","o","p","u","l","a","t","i","o","n","_","d","a","t","a">>

\* C13: a cleaned file that detect_data_type classifies as sales, charging
\* stations or vehicle population is loaded into the table ev_sales,
\* charging_stations or ev_population and into the collection ev_sales_data,
\* charging_stations or ev_population_data, whatever the base name of the file.
C13_CanonicalIdentifiers ==
    pc = "saved" =>
    /\ table_name # None => table_name = PyStr(CanonicalTable(data_type))
    /\ collection_name # None => collection_name = PyStr(CanonicalCollection(data_type))

NameHas(word) == Contains(Lower(file_stem), word)

\* C14: detect_data_type is total and decides by the first matching test on the
\* lower-cased name: "population" or "vehicle" gives vehicle population;
\* otherwise "station" gives charging stations; otherwise "sales", "iea" or
\* "global" gives sales; otherwise generic. A name with both "vehicle" and
\* "sales" is vehicle population.
C14_DetectFirstMatch ==
    pc # "raw" =>
    LET isPopulation == NameHas(<<"p","o","p","u","l","a","t","i","o","n">>)
                            \/ NameHas(<<"v","e","h","i","c","l","e">>)
        isStation == NameHas(<<"s","t","a","t","i","o","n">>)
        isSales == NameHas(<<"s","a","l","e","s">>) \/ NameHas(<<"i","e","a">>)
                       \/ NameHas(<<"g","l","o","b","a","l">>)
    IN  /\ data_type \in DataTypes \cup {"generic"}
        /\ isPopulation => data_type = "ev_population"
        /\ (~isPopulation /\ isStation) => data_type = "charging_stations"
        /\ (~isPopulation /\ ~isStation /\ isSales) => data_type = "ev_sales"
        /\ (~isPopulation /\ ~isStation /\ ~isSales) => data_type = "generic"

\* a name with both "vehicle" and "sales" has been classified
C14_Witness ==
    /\ pc # "raw"
    /\ NameHas(<<"v","e","h","i","c","l","e">>) /\ NameHas(<<"s","a","l","e","s">>)
    /\ data_type = "ev_population"

-----------------------------------------------------------------------------
(* Properties of guess_column_type (specification SpecGuess).              *)

ColumnTypes ==
    {SqlType(name) : name \in {"TEXT", "INTEGER", "DECIMAL(15,4)", "VARCHAR(100)", "VARCHAR(200)"}}

\* the non-empty values the numeric test reads
Checked == Prefix(NonEmptyValues(arg), NumericSample)
AllParse == \A k \in 1..Len(Checked) : ~IsRaise(ParseFloat(Checked[k]))
\* v contains '.' or its float value differs from its truncated integer value
Fractional(v) ==
    \/ Contains(v, <<".">>)
    \/ ParseFloat(v).k = "fin" /\ ParseFloat(v).v % Scale # 0

\* C15: guess_column_type returns TEXT when the sample has no non-empty value;
\* when every checked non-empty value parses as a floating-point number it
\* returns DECIMAL(15,4) if any checked value contains '.' or has a float value
\* different from its truncated integer value, and INTEGER otherwise; it
\* returns one of the five column types for every sample and never raises.
C15_NumericColumnType ==
    fn = "guess_column_type" =>
    /\ ret \in ColumnTypes
    /\ NonEmptyValues(arg) = <<>> => ret = SqlType("TEXT")
    /\ (NonEmptyValues(arg) # <<>> /\ AllParse) =>
          ret = IF \E k \in 1..Len(Checked) : Fractional(Checked[k])
                THEN SqlType("DECIMAL(15,4)") ELSE SqlType("INTEGER")

\* C16: a column that is not all-numeric gets its type from the maximum length
\* L of the sampled non-empty values: L <= 50 gives VARCHAR(100), 50 < L <= 150
\* gives VARCHAR(200), L > 150 gives TEXT; a longest value of 60 characters
\* gives VARCHAR(200) and one of 500 characters gives TEXT.
C16_LengthBuckets ==
    (fn = "guess_column_type" /\ NonEmptyValues(arg) # <<>> /\ ~AllParse) =>
    LET L == MaxLength(Prefix(NonEmptyValues(arg), LengthSample))
    IN  /\ L <= 50 => ret = SqlType("VARCHAR(100)")
        /\ (50 < L /\ L <= 150) => ret = SqlType("VARCHAR(200)")
        /\ L > 150 => ret = SqlType("TEXT")
        /\ L = 60 => ret = SqlType("VARCHAR(200)")
        /\ L = 500 => ret = SqlType("TEXT")

-----------------------------------------------------------------------------
(* Properties of the relational load (specification SpecLoad).             *)

\* the load of the file raises nowhere: the file has a header, the inference
\* returns a type for every column and every row fits the inferred types
Loadable(file) ==
    /\ ~IsRaise(InferColumns(file.lines))
    /\ \A n \in 2..Len(file.lines) :
          RowFits(DbRow(file.lines[n], Len(file.lines[1])), InferColumns(file.lines).v)

\* the table that holds exactly the data rows of the file, in file order
TableOfFile(file) ==
    [exists |-> TRUE,
     cols |-> InferColumns(file.lines).v,
     rows |-> [n \in 1..(Len(file.lines) - 1) |-> DbRow(file.lines[n + 1], Len(file.lines[1]))]]

\* the tables before the run under way
DbBeforeRun == IF run = 1 THEN db0 ELSE db1

\* the files finished so far in this run that are loadable into table t
GoodLoads(t) ==
    {k \in 1..Len(outcomes) : TableNameOf(csv_files[k].stem) = t /\ Loadable(csv_files[k])}

Latest(ks) == CHOOSE k \in ks : \A j \in ks : j <= k

BetweenFiles == pc \in {"next", "done"}

\* C11: when the load of one file fails, it is rolled back as a whole: its
\* table is left as committed before this load, neither dropped nor partly
\* filled; the tables committed for earlier files keep their contents, and the
\* files after it are still loaded. Between two files every table is the table
\* of the latest loadable file that names it, or what it was before the run.
C11_FailedLoadRolledBack ==
    (BetweenFiles /\ run >= 1) =>
    /\ working = committed
    /\ Len(outcomes) = file_idx
    /\ \A k \in 1..Len(outcomes) : outcomes[k] = "ok" <=> Loadable(csv_files[k])
    /\ \A t \in TableNames :
          committed[t] = IF GoodLoads(t) = {} THEN DbBeforeRun[t]
                         ELSE TableOfFile(csv_files[Latest(GoodLoads(t))])
    /\ pc = "done" => file_idx = Len(csv_files)

\* a load failed after rows had been inserted, its table existed before, and a
\* later file was loaded into another table
C11_Witness ==
    /\ pc = "done"
    /\ \E j, k \in 1..Len(outcomes) :
          /\ j < k /\ outcomes[j] = "failed" /\ outcomes[k] = "ok"
          /\ Len(csv_files[j].lines) >= 3
          /\ ~IsRaise(InferColumns(csv_files[j].lines))
          /\ TableNameOf(csv_files[j].stem) # TableNameOf(csv_files[k].stem)
          /\ committed[TableNameOf(csv_files[j].stem)] = OldTable

\* the file whose load has just been committed
JustLoaded == pc = "next" /\ file_idx >= 1 /\ outcomes[file_idx] = "ok"

\* no other file of the directory is loaded into the table of file k, so that
\* the load of file k in the second run follows its load in the first run
OnlyFileOfTable(k) ==
    \A j \in 1..Len(csv_files) :
        j # k => TableNameOf(csv_files[j].stem) # TableNameOf(csv_files[k].stem)

\* C17: after a successful load of a file with N data rows the table holds
\* exactly those N rows and nothing from before the load, whatever it held
\* earlier; loading the same file twice in succession leaves the same table as
\* loading it once.
C17_TableReplaced ==
    /\ JustLoaded =>
          LET file == csv_files[file_idx]
              table == committed[TableNameOf(file.stem)]
          IN  /\ table.exists
              /\ Len(table.rows) = Len(file.lines) - 1
              /\ \A n \in 1..Len(table.rows) :
                    table.rows[n] = DbRow(file.lines[n + 1], Len(file.lines[1]))
              /\ (run = 2 /\ OnlyFileOfTable(file_idx)) => table = db1[TableNameOf(file.stem)]

\* a file of several rows has been loaded a second time into a table that
\* held other rows before the first load
C17_Witness ==
    /\ JustLoaded /\ run = 2 /\ OnlyFileOfTable(file_idx)
    /\ Len(csv_files[file_idx].lines) >= 3
    /\ db0[TableNameOf(csv_files[file_idx].stem)] = OldTable

-----------------------------------------------------------------------------
(* Properties of the cleaners as a whole (specification SpecClean).        *)

\* what the cleaner of the file's kind does with one row taken alone
RowOutcome(row) ==
    CASE data_type = "ev_population" -> CleanPopulationRow(row)
      [] data_type = "charging_stations" -> CleanStationRow(row)
      [] data_type = "ev_sales" -> CleanSalesRow(row)

RowKept(row) == RowOutcome(row).o = "emit"

\* C19: each cleaner, for any sequence of raw records, returns without raising:
\* a rejected row is dropped silently and does not affect any other row, each
\* raw record yields zero or one normalized record, and the emitted records keep
\* the input order, so the cleaned count never exceeds the raw count.
C19_CleanerNeverRaises ==
    (pass = 1 /\ Returned) =>
        LET kept == SelectSeq(raw_data, RowKept)
        IN  /\ pc = "returned"
            /\ Len(cleaned_data) <= Len(raw_data)
            /\ Len(cleaned_data) = Len(kept)
            /\ \A n \in 1..Len(kept) : cleaned_data[n] = RowOutcome(kept[n]).rec

-----------------------------------------------------------------------------
(* Properties of the preprocessing run                                     *)

\* the last file visited was cleaned and saved with at least one record
JustSaved ==
    /\ pc = "next" /\ file_idx > 0
    /\ raw_data # <<>> /\ data_type # "generic" /\ cleaned_data # <<>>

KeysOf(data) == UNION {DOMAIN data[n] : n \in 1..Len(data)}
Ascending(names) ==
    \A k \in 1..(Len(names) - 1) : StrLess(Spelling[names[k]], Spelling[names[k + 1]])
Cells(names, record) == [k \in 1..Len(names) |-> CsvCell(Get(record, names[k]))]

TabularOf(file, data) ==
    /\ file.t = "csv"
    /\ Ascending(file.header)
    /\ {file.header[k] : k \in 1..Len(file.header)} = KeysOf(data)
    /\ Len(file.header) = Cardinality(KeysOf(data))
    /\ Len(file.rows) = Len(data)
    /\ \A n \in 1..Len(data) : file.rows[n] = Cells(file.header, data[n])

DocumentsOf(file, data) ==
    /\ file.t = "json"
    /\ Len(file.docs) = Len(data)
    /\ \A n \in 1..Len(data) :
          /\ DOMAIN file.docs[n] = KeysOf(data)
          /\ \A f \in KeysOf(data) : file.docs[n][f] = Get(data[n], f)

\* C18: after save_cleaned_data wrote a file's records, the processed CSV has
\* as header the keys of all records in ascending order, one row per record in
\* order with an empty cell where the record has no value; the SQL copy is the
\* same file, and the JSON output holds the same records in the same order over
\* the same keys, None where a record has none
C18_SavedOutputs ==
    JustSaved =>
        /\ TabularOf(processed_dir[csv_files[file_idx].stem], cleaned_data)
        /\ sql_dir[csv_files[file_idx].stem] = processed_dir[csv_files[file_idx].stem]
        /\ DocumentsOf(nosql_dir[csv_files[file_idx].stem], cleaned_data)

\* a file was saved whose records do not all have the same keys
C18_Witness ==
    /\ JustSaved
    /\ \E n \in 1..Len(cleaned_data) : DOMAIN cleaned_data[n] # KeysOf(cleaned_data)

\* the k-th file of the run is of a known kind and has rows
KnownKind(k) ==
    /\ csv_files[k].rows # <<>>
    /\ detect_data_type(csv_files[k].stem) # "generic"

RecordsIn(file) ==
    IF file.t = "csv" THEN file.rows ELSE IF file.t = "json" THEN file.docs ELSE <<>>
FileOrNone(file) == IF file = None THEN NoFile ELSE file

HoldsRetained(stem, retained) ==
    /\ RecordsIn(processed_dir[stem]) = RecordsIn(FileOrNone(SavedCsv(retained)))
    /\ RecordsIn(sql_dir[stem]) = RecordsIn(FileOrNone(SavedCsv(retained)))
    /\ RecordsIn(nosql_dir[stem]) = RecordsIn(FileOrNone(SavedJson(retained)))

\* C12: when a run has reached the summary, the three outputs under the stem of
\* every file of a known kind it processed hold exactly the records the cleaner
\* retained from that file in this run, none when it retained none
C12_OutputsReplaced ==
    pc = "done" =>
        \A k \in 1..Len(csv_files) :
            KnownKind(k) =>
                HoldsRetained(csv_files[k].stem,
                              CleanFile(detect_data_type(csv_files[k].stem), csv_files[k].rows).data)

\* the k-th file of the run was classified generic and passed over
SkippedGeneric(k) ==
    /\ k <= file_idx
    /\ csv_files[k].rows # <<>>
    /\ detect_data_type(csv_files[k].stem) = "generic"

\* C20: a file classified generic leaves no output under its stem in any of the
\* three directories, and the run that passed over it does not end before its
\* summary
C20_GenericSkipped ==
    \A k \in 1..Len(csv_files) :
        SkippedGeneric(k) =>
            /\ processed_dir[csv_files[k].stem] = NoFile
            /\ sql_dir[csv_files[k].stem] = NoFile
            /\ nosql_dir[csv_files[k].stem] = NoFile
            /\ pc # "crashed"

-----------------------------------------------------------------------------
(* Properties of standardize_make and clean_numeric                        *)

Volkswagen == <<"V","o","l","k","s","w","a","g","e","n">>
Chevrolet == <<"C","h","e","v","r","o","l","e","t">>
MercedesBenz == <<"M","e","r","c","e","d","e","s","-","B","e","n","z">>
Tesla == <<"T","e","s","l","a">>
ObscureCo == <<"O","b","s","c","u","r","e",SP,"C","o">>

\* the synonym the table has for name, none when name is not a key
Synonym(name) ==
    IF \E e \in standardization_map : e[1] = name
    THEN PyStr((CHOOSE e \in standardization_map : e[1] = name)[2])
    ELSE None

MakeOf(cleaned, result) ==
    IF cleaned = None THEN result = None
    ELSE /\ result # None
         /\ IF Synonym(Lower(cleaned.v)) # None
            THEN result = Synonym(Lower(cleaned.v))
            ELSE result = PyStr(Title(cleaned.v))
         /\ Lower(cleaned.v) = <<"v","w">> => result = PyStr(Volkswagen)
         /\ Lower(cleaned.v) = <<"c","h","e","v","y">> => result = PyStr(Chevrolet)
         /\ Lower(cleaned.v) = <<"m","e","r","c","e","d","e","s">> => result = PyStr(MercedesBenz)
         /\ Lower(cleaned.v) = <<"t","e","s","l","a">> => result = PyStr(Tesla)
         /\ cleaned.v = ObscureCo => result = PyStr(ObscureCo)

\* C21: standardize_make returns None exactly when clean_string of its input
\* is None; otherwise the table's entry for the lower-cased cleaned name when
\* it is a key (vw, chevy, mercedes, tesla in any letter case), and the
\* title-cased cleaned name when it is not
C21_StandardizeMake ==
    fn = "standardize_make" => MakeOf(clean_string(arg), ret)

\* a key spelled in mixed or upper case, with padding around it, was looked up
C21_Witness ==
    /\ fn = "standardize_make"
    /\ arg \in {PyStr(<<SP,"C","h","e","v","y">>), PyStr(<<"T","E","S","L","A",TAB>>)}
    /\ ret \in {PyStr(Chevrolet), PyStr(Tesla)}

\* the text clean_numeric parses: '$', ',' and '%' removed, then stripped
NumericText(value) == Strip(RemoveSymbols(value.v))

FiniteParse(value) ==
    /\ value.t = "str"
    /\ ~IsRaise(ParseFloat(NumericText(value)))
    /\ ParseFloat(NumericText(value)).k = "fin"

NullSpelled(value) ==
    /\ value.t = "str"
    /\ Lower(NumericText(value)) \in
          { <<"n","u","l","l">>, <<"n","o","n","e">>, <<"n","/","a">>, <<>>, <<"n","a","n">> }

TowardZero(m) == IF m < 0 THEN -((-m) \div Scale) ELSE m \div Scale

\* C22: clean_numeric of a string that parses, after removal of '$', ',', '%'
\* and surrounding whitespace, as a finite x returns the floor of x with kind
\* int, for negative x as well, and x itself with kind float; the spellings
\* null, none, n/a, empty and nan in any letter case give None
C22_NumericFloor ==
    fn = "clean_numeric" =>
        /\ (FiniteParse(arg) /\ as_type = "int") =>
                ret = PyInt(Floor(ParseFloat(NumericText(arg)).v))
        /\ (FiniteParse(arg) /\ as_type = "float") => ret = ParseFloat(NumericText(arg))
        /\ NullSpelled(arg) => ret = None

\* C22 amended: with kind int the result is x rounded towards zero, which is
\* the floor for x >= 0 only ("-12.9" gives -12); kind float and the null
\* spellings as stated
C22_NumericTruncated ==
    fn = "clean_numeric" =>
        /\ (FiniteParse(arg) /\ as_type = "int") =>
                ret = PyInt(TowardZero(ParseFloat(NumericText(arg)).v))
        /\ (FiniteParse(arg) /\ as_type = "float") => ret = ParseFloat(NumericText(arg))
        /\ NullSpelled(arg) => ret = None

\* a negative value with a fraction was converted with kind int
C22_Witness ==
    /\ fn = "clean_numeric" /\ as_type = "int"
    /\ arg = PyStr(<<"-","1","2",".","9">>)
    /\ ret = PyInt(-12)

-----------------------------------------------------------------------------
(* Properties of single fields of the cleaned records                      *)

FastSpellings == { <<"t","r","u","e">>, <<"y","e","s">>, <<"1">>, <<"t">> }

\* record was emitted for row: what its is_fast_dc is
FastDcOf(row, record) ==
    /\ Get(row, "is_fast_dc").t = "str" =>
          /\ "is_fast_dc" \in DOMAIN record
          /\ record["is_fast_dc"] \in {PyBool(TRUE), PyBool(FALSE)}
          /\ record["is_fast_dc"] = PyBool(TRUE) <=>
                Lower(Get(row, "is_fast_dc").v) \in FastSpellings
    /\ "is_fast_dc" \notin DOMAIN record => Get(row, "is_fast_dc") = None

\* C23: whenever the station cleaner appends a record for a raw row carrying
\* an is_fast_dc string s, the record's is_fast_dc is a boolean, true exactly
\* when s is TRUE, YES, 1 or T in some letter case; the record lacks the field
\* only when the row has no is_fast_dc
C23_FastDcBoolean ==
    [][(data_type = "charging_stations" /\ Len(cleaned_data') = Len(cleaned_data) + 1)
          => FastDcOf(raw_data[i + 1], cleaned_data'[Len(cleaned_data')])]_vars

\* a record was emitted for a row whose is_fast_dc is a lower-case spelling
C23_Witness ==
    /\ data_type = "charging_stations" /\ pass = 1 /\ pc = "loop" /\ i >= 1
    /\ Get(raw_data[i], "is_fast_dc") \in {PyStr(<<"t">>), PyStr(<<"t","r","u","e">>)}
    /\ cleaned_data # <<>>
    /\ Get(cleaned_data[Len(cleaned_data)], "is_fast_dc") = PyBool(TRUE)

-----------------------------------------------------------------------------
(* Properties of the bulk insert of create_typed_table_from_csv            *)

\* the rows of the batches passed to executemany so far, in the order passed
RECURSIVE Concatenated(_)
Concatenated(batches) ==
    IF batches = <<>> THEN <<>> ELSE Head(batches) \o Concatenated(Tail(batches))

\* a file is being loaded: its table is created and its rows are being read
Loading == pc \in {"rows", "loaded", "failed"} /\ columns # <<>>

\* inserted is what was passed to the insert for the line raw under header
NormalizedTo(raw, inserted, header) ==
    /\ Len(inserted) = Len(header)
    /\ \A c \in 1..Len(header) :
          /\ c > Len(raw) => inserted[c] = None
          /\ (c <= Len(raw) /\ Strip(raw[c]) = <<>>) => inserted[c] = None
          /\ (c <= Len(raw) /\ Strip(raw[c]) # <<>>) => inserted[c] = PyStr(raw[c])

\* C25: every row passed to the bulk insert has as many cells as the header:
\* a shorter line is padded with None, a longer one is cut to the header's
\* width, an empty or whitespace-only cell is None, any other cell is passed
\* unchanged
C25_RowsNormalized ==
    Loading =>
        \A n \in 1..Len(Concatenated(executed)) :
            NormalizedTo(CurRows[n], Concatenated(executed)[n], CurFile.lines[1])

\* a batch was inserted that came from a line shorter and a line longer than
\* the header
C25_Witness ==
    /\ Loading /\ executed # <<>>
    /\ \E n \in 1..Len(Concatenated(executed)) : Len(CurRows[n]) < Len(CurFile.lines[1])
    /\ \E n \in 1..Len(Concatenated(executed)) : Len(CurRows[n]) > Len(CurFile.lines[1])

\* batches needed for n rows
BatchesFor(n) == (n + 999) \div 1000

\* C24: the batches passed to executemany for a file have between 1 and 1000
\* rows each, all but the last exactly 1000, the pending buffer never holds
\* more than 1000 rows; batches and buffer together hold each row read so far
\* once, and when the function returns the batches are, concatenated, the N
\* rows of the file in file order, in N/1000 rounded up batches (none for
\* N = 0)
C24_Batches ==
    Loading =>
        /\ \A k \in 1..Len(executed) : 1 <= Len(executed[k]) /\ Len(executed[k]) <= 1000
        /\ \A k \in 1..(Len(executed) - 1) : Len(executed[k]) = 1000
        /\ Len(batch_data) <= 1000
        /\ pc = "rows" => Len(Concatenated(executed)) + Len(batch_data) = count
        /\ pc = "loaded" =>
              /\ Len(executed) = BatchesFor(Len(CurRows))
              /\ Len(Concatenated(executed)) = Len(CurRows)
              /\ \A n \in 1..Len(CurRows) :
                    NormalizedTo(CurRows[n], Concatenated(executed)[n], CurFile.lines[1])

\* a file of two full batches was loaded
C24_Witness ==
    /\ Loading /\ pc = "loaded"
    /\ Len(CurRows) = 2000
    /\ Len(executed) = 2

\* the first n non-empty values, stripped, of column c over the first 100
\* data rows of a file
Window(lines, c, n) ==
    Prefix(NonEmptyValues(ColumnValues(Prefix(Tail(lines), 100), c)), n)

\* two files agree on their headers and, in every column, inside the window
\* of n values
Agree(f, g, n) ==
    /\ f # <<>> /\ g # <<>>
    /\ f[1] = g[1]
    /\ \A c \in 1..Len(f[1]) : Window(f, c, n) = Window(g, c, n)

NumericDecision(type) ==
    IF type \in {SqlType("INTEGER"), SqlType("DECIMAL(15,4)")} THEN type ELSE SqlType("not numeric")

\* C26: a file that agrees with the file being loaded on the first 50
\* non-empty values of every column over the first 100 data rows gets the same
\* column types, and one that agrees on the first 20 gets the same decision
\* between INTEGER, DECIMAL(15,4) and not numeric, whatever the two hold
\* outside these windows
C26_SamplingWindows ==
    pc = "analyzed" =>
        \A g \in BulkContents :
            /\ Agree(CurFile.lines, g, 50) =>
                  /\ ~IsRaise(InferColumns(g))
                  /\ InferColumns(g).v = columns
            /\ Agree(CurFile.lines, g, 20) =>
                  /\ ~IsRaise(InferColumns(g))
                  /\ \A c \in 1..Len(columns) :
                        NumericDecision(InferColumns(g).v[c]) = NumericDecision(columns[c])

\* the file being loaded has one number in its 100 sampled rows and a text in
\* the row after them, and its column is INTEGER as for the file that ends
\* before that row
C26_Witness ==
    /\ pc = "analyzed"
    /\ CurFile.lines = <<H1>> \o Lines(<<>>, 99) \o Lines(Seven, 1) \o Lines(Abc, 1)
    /\ columns = <<SqlType("INTEGER")>>

\* alias a of row is absent or empty
Missing(row, a) == a \notin DOMAIN row \/ row[a] = None \/ row[a] = PyStr(<<>>)

\* the value of the first alias, in list order, that is not missing
FirstPresent(row, aliases) ==
    IF \A k \in 1..Len(aliases) : Missing(row, aliases[k]) THEN None
    ELSE row[aliases[CHOOSE k \in 1..Len(aliases) :
                        /\ ~Missing(row, aliases[k])
                        /\ \A j \in 1..(k - 1) : Missing(row, aliases[j])]]

Target(field, aliases, norm, plain) ==
    [field |-> field, aliases |-> aliases, norm |-> norm, plain |-> plain]

\* the target fields that have aliases, their normalizers, and whether the
\* cleaner keeps every value that is set
AliasTargets(kind) ==
    CASE kind = "ev_population" ->
            { Target("make", <<"make", "Make">>, "make", TRUE),
              Target("model", <<"model", "Model">>, "string", TRUE),
              Target("model_year", <<"model_year", "Model Year", "year", "Year">>, "year", FALSE),
              Target("electric_vehicle_type",
                     <<"electric_vehicle_type", "Electric Vehicle Type", "EV Type">>, "string", TRUE),
              Target("electric_range", <<"electric_range", "Electric Range", "range">>, "int", FALSE),
              Target("base_msrp", <<"base_msrp", "Base MSRP", "MSRP", "price">>, "float", FALSE),
              Target("state", <<"state", "State">>, "string", TRUE),
              Target("city", <<"city", "City">>, "string", TRUE),
              Target("county", <<"county", "County">>, "string", TRUE),
              Target("vin_1_10", <<"vin_1_10", "VIN (1-10)", "VIN", "vin">>, "string", FALSE) }
      [] kind = "charging_stations" ->
            { Target("country_code", <<"country_code", "country">>, "upper", TRUE),
              Target("power_kw", <<"power_kw", "power">>, "float", FALSE),
              Target("network", <<"network", "operator">>, "string", TRUE) }
      [] kind = "ev_sales" ->
            { Target("region", <<"region", "country">>, "string", TRUE),
              Target("parameter", <<"parameter", "category">>, "string", TRUE) }

UpperOf(x) == IF x = None THEN None ELSE PyStr(Upper(x.v))

Normalized(norm, value) ==
    CASE norm = "make" -> standardize_make(value)
      [] norm = "string" -> clean_string(value)
      [] norm = "upper" -> UpperOf(clean_string(value))
      [] norm = "year" -> clean_year(value)
      [] norm = "int" -> clean_numeric(value, "int")
      [] norm = "float" -> clean_numeric(value, "float")

\* record was emitted for row: target's field, when the record has it, is the
\* normalized value of the first alias that is not missing, and the record
\* lacks a field kept whenever set only when that value is None
FromFirstAlias(row, record, target) ==
    /\ target.field \in DOMAIN record =>
          record[target.field] = Normalized(target.norm, FirstPresent(row, target.aliases))
    /\ (target.field \notin DOMAIN record /\ target.plain) =>
          Normalized(target.norm, FirstPresent(row, target.aliases)) = None

\* C28: whenever a cleaner appends a record for a raw row, every target field
\* with a list of alias columns comes from the first alias, in list order,
\* whose raw value is neither absent nor empty; a later alias is used only
\* when every earlier one is missing
C28_FirstAliasWins ==
    [][(pass = 1 /\ Len(cleaned_data') = Len(cleaned_data) + 1) =>
          \A target \in AliasTargets(data_type) :
              FromFirstAlias(raw_data[i + 1], cleaned_data'[Len(cleaned_data')], target)]_vars

\* a record was emitted for a row that has two aliases of a field set, and
\* for a row whose first alias is empty and a later one set
C28_Witness ==
    /\ pass = 1 /\ pc = "loop" /\ i = 2 /\ Len(cleaned_data) = 2
    /\ data_type = "ev_population"
    /\ ~Missing(raw_data[1], "make") /\ ~Missing(raw_data[1], "Make")
    /\ cleaned_data[1]["make"] = PyStr(Tesla)
    /\ Missing(raw_data[2], "make") /\ ~Missing(raw_data[2], "Make")
    /\ cleaned_data[2]["make"] = PyStr(Volkswagen)

-----------------------------------------------------------------------------
(* Properties of the query layer (specifications SpecQuery and SpecTests). *)

Requested(backend) == request.database_type \in {backend, "both"}
Completes(behaviour) == behaviour.file /\ ~behaviour.fails
Expected(backend, behaviour) ==
    IF Requested(backend) /\ Completes(behaviour) THEN PyList(behaviour.rows) ELSE PyList(<<>>)

\* C29: execute_query returns for every behaviour of the two backends, its
\* result holds a list under "sql" and under "mongodb", each backend that was
\* requested and completed has its own rows there whatever the other backend
\* did, and "times" has a key for a backend exactly when the backend was
\* requested and completed without error.
C29_BackendsIsolated ==
    pc = "returned" =>
        /\ DOMAIN results = {"sql", "mongodb", "times"}
        /\ results.sql.t = "list" /\ results.mongodb.t = "list"
        /\ results.sql = Expected("sql", request.sql)
        /\ results.mongodb = Expected("mongodb", request.mongodb)
        /\ results.times = {backend \in {"sql", "mongodb"} :
                               /\ Requested(backend)
                               /\ Completes(IF backend = "sql" THEN request.sql
                                            ELSE request.mongodb)}

\* the SQL side of a call for both backends failed and the MongoDB side ran
C29_Witness ==
    /\ pc = "returned"
    /\ request.database_type = "both"
    /\ ~Completes(request.sql)
    /\ results.mongodb.v # <<>>
    /\ results.times = {"mongodb"}

FailedTests(database) ==
    {k \in DOMAIN request : request[k].database = database /\ ~Completes(request[k].behaviour)}
PassedTests(database) ==
    {k \in DOMAIN request : request[k].database = database /\ Completes(request[k].behaviour)}

\* C30: when run_all_tests has finished, sql_failures and mongodb_failures
\* count the queries whose execution failed (file missing or database error),
\* failed_queries lists each of them, and sql_success and mongodb_success
\* count the queries that ran.
C30_FailuresCounted ==
    pc = "done" =>
        /\ runner.sql_failures = Cardinality(FailedTests("SQL"))
        /\ runner.mongodb_failures = Cardinality(FailedTests("MongoDB"))
        /\ runner.sql_success = Cardinality(PassedTests("SQL"))
        /\ runner.mongodb_success = Cardinality(PassedTests("MongoDB"))
        /\ Len(runner.failed_queries) =
               Cardinality(FailedTests("SQL")) + Cardinality(FailedTests("MongoDB"))

-----------------------------------------------------------------------------
(* Properties of the resources (specification SpecResources).              *)

Exited == pc \in {"returned", "raised"}

\* C27: when a load or query operation has exited, by a return or by an
\* exception that leaves it, no connection, cursor, client or file that it
\* opened is still open.
C27_AllReleased == Exited => \A k \in Kinds : handles[k] = 0

====
